---- MODULE Spec2Model ----
(***************************************************************************)
(* A model of github.com/pnocera/gomem: the SQLite history store           *)
(* (pkg/memory/history_store.go) with its reader/writer lock, and the      *)
(* memory service facade (memoryServiceImpl) in front of the message bus.  *)
(*                                                                         *)
(* The SQLite engine and database/sql are taken as healthy (no I/O error,  *)
(* contexts not cancelled); what the repository's code does with them is   *)
(* modelled step by step.  Timestamps are instants (integers, 0 is the     *)
(* zero time.Time); strings are tokens.                                    *)
(***************************************************************************)
EXTENDS Integers, Sequences, FiniteSets, TLC

\* ------------------------------------------------------------------ bounds

\* Number of goroutines that call the history store concurrently.
NumProcs == 2
\* Number of LogEvent calls in a run (each may draw one fresh uuid).
MaxLogCalls == 2
\* Number of Add calls made on the memory service in a run.
MaxAddCalls == 2
\* Largest number of messages in an AddMemoryRequest.
MaxMessages == 2

\* Number of messages each stage handler handles in a run.
MaxHandled == 1
\* Number of requests the caller hands to Add in a run of the pipeline.
MaxSubmitted == 1
\* Number of messages the bus client receives from Search, Get, Update and Delete
\* in a run.
MaxServiceMessages == 1
\* Number of times the bus delivers one message to its stage handler.
MaxDeliveries == 2

Procs == 1..NumProcs

\* ------------------------------------------------------- Go values and JSON

\* A map[string]interface{}: nil or not, and its entries <<key, dynamic type, value>>.
NilMap == [isNil |-> TRUE, entries |-> {}]
EmptyMap == [isNil |-> FALSE, entries |-> {}]
StrMap == [isNil |-> FALSE, entries |-> {<<"k", "string", "v">>}]
IntMap == [isNil |-> FALSE, entries |-> {<<"n", "int", "1">>}]
ChanMap == [isNil |-> FALSE, entries |-> {<<"c", "chan", "">>}]

\* A string that is not valid UTF-8, and what encoding/json writes for it.
BadUTF8 == "\\xff"
ReplacementChar == "\\ufffd"

\* encoding/json: the JSON type written for a Go value of dynamic type t.
JSONTypeOf(t) == IF t \in {"int", "float64"} THEN "number" ELSE t

\* encoding/json: the Go type a JSON value of type t decodes to in an interface{}.
GoTypeOf(t) == IF t = "number" THEN "float64" ELSE t

\* encoding/json: a string is written with invalid UTF-8 replaced by U+FFFD.
JSONString(s) == IF s = BadUTF8 THEN ReplacementChar ELSE s

\* json.Marshal fails on a value it cannot represent (a channel, a func, NaN).
MarshalMapFails(m) == \E e \in m.entries : e[2] = "chan"

\* json.Marshal of a map[string]interface{}: "null" for a nil map, else an object.
MarshalMap(m) ==
    [kind |-> IF m.isNil THEN "null" ELSE "object",
     members |-> {<<JSONString(e[1]), JSONTypeOf(e[2]),
                    IF e[2] = "string" THEN JSONString(e[3]) ELSE e[3]>> : e \in m.entries}]

\* json.Unmarshal of a JSON text into a nil map[string]interface{}: null leaves the
\* map nil, an object allocates a map whose numbers are float64.
UnmarshalMap(j) ==
    IF j.kind = "null" THEN NilMap
    ELSE [isNil |-> FALSE, entries |-> {<<e[1], GoTypeOf(e[2]), e[3]>> : e \in j.members}]

\* ------------------------------------------------------------ MemoryEvent

UserIDs == {"", "u1"}

\* MemoryEvent (types.go).  user_id stands for the seven optional string columns
\* (user_id, agent_id, run_id, actor_id, old_memory, new_memory, search_query),
\* which LogEvent and GetHistory treat alike.
NoEvent ==
    [EventID |-> "", MemoryID |-> "", EventType |-> "", Timestamp |-> 0,
     UserID |-> "", Details |-> NilMap]

\* uuid.New().String(): the n-th identifier drawn in a run; never a caller's id.
UUIDs ==
    <<"uuid-1", "uuid-2", "uuid-3", "uuid-4", "uuid-5", "uuid-6", "uuid-7", "uuid-8",
      "uuid-9", "uuid-10", "uuid-11", "uuid-12", "uuid-13", "uuid-14", "uuid-15",
      "uuid-16">>

CallerEventIDs == {"", "e1"}
MemoryIDs == {"", "m1", "m2"}
EventTypes == {"", "ADD"}
DetailsValues == {NilMap, EmptyMap, IntMap, ChanMap}
\* The instants the wall clock shows and a caller passes; 0 is the zero time.Time.
Instants == {1, 2}

EventFields == {"EventID", "MemoryID", "EventType", "Timestamp", "UserID", "Details"}

\* An event as the pipeline stages build it: no event_id, no timestamp, no details.
TypicalEvent ==
    [EventID |-> "", MemoryID |-> "m1", EventType |-> "ADD", Timestamp |-> 0,
     UserID |-> "u1", Details |-> NilMap]

\* The events a caller passes to LogEvent: the typical event, and every event that
\* differs from it in one field.
EventInputs ==
    {e \in [EventID : CallerEventIDs, MemoryID : MemoryIDs, EventType : EventTypes,
            Timestamp : {0} \cup Instants, UserID : UserIDs, Details : DetailsValues] :
        Cardinality({f \in EventFields : e[f] # TypicalEvent[f]}) <= 1}

\* ------------------------------------------------------- AddMemoryRequest

\* An omitempty field of a JSON object: written only when the Go value is not empty.
OmitEmpty(isEmpty, v, zero) == [present |-> ~isEmpty, value |-> IF isEmpty THEN zero ELSE v]

Roles == {"user", "assistant", "system", "admin", ""}
Contents == {"hello", "", BadUTF8}
Names == {"", "bob"}
MetadataValues == {NilMap, EmptyMap, StrMap, IntMap, ChanMap}

\* A message as a chat client sends it.
TypicalMessage == [Role |-> "user", Content |-> "hello", Name |-> ""]

\* The messages of the requests: the typical one and all that differ from it in one
\* field.
Messages ==
    {m \in [Role : Roles, Content : Contents, Name : Names] :
        Cardinality({f \in {"Role", "Content", "Name"} : m[f] # TypicalMessage[f]}) <= 1}

\* A []Message: nil or not, and its elements.  At most one element is not typical.
NilMessages == [isNil |-> TRUE, items |-> <<>>]

MessageLists ==
    {NilMessages} \cup
    {[isNil |-> FALSE, items |-> ms] :
        ms \in {l \in UNION {[1..n -> Messages] : n \in 0..MaxMessages} :
                  Cardinality({i \in DOMAIN l : l[i] # TypicalMessage}) <= 1}}

\* A request as a caller of Add builds it.
TypicalRequest ==
    [UserID |-> "u1", Metadata |-> NilMap,
     Messages |-> [isNil |-> FALSE, items |-> <<TypicalMessage>>], Infer |-> FALSE]

\* The requests passed to Add: the typical one and all that differ from it in one
\* field.
AddMemoryRequests ==
    {r \in [UserID : UserIDs, Metadata : MetadataValues, Messages : MessageLists,
            Infer : BOOLEAN] :
        Cardinality({f \in {"UserID", "Metadata", "Messages", "Infer"} :
                        r[f] # TypicalRequest[f]}) <= 1}

NoRequest == [UserID |-> "", Metadata |-> NilMap, Messages |-> NilMessages, Infer |-> FALSE]

\* Message's validate tags without the one on content.
ValidMessageByRole(m) == m.Role \in {"user", "assistant", "system"}

\* Message's validate tags: role required and one of user, assistant, system;
\* content required.
ValidMessage(m) == m.Role \in {"user", "assistant", "system"} /\ m.Content # ""

\* AddMemoryRequest.Validate: messages required (not nil), min=1, dive.
ValidAddMemoryRequest(r) ==
    /\ ~r.Messages.isNil
    /\ Len(r.Messages.items) >= 1
    /\ \A i \in 1..Len(r.Messages.items) : ValidMessage(r.Messages.items[i])

\* json.Marshal(req) fails when the metadata holds a value JSON cannot represent.
MarshalRequestFails(r) == MarshalMapFails(r.Metadata)

\* json.Marshal(req): user_id, metadata and a message's name are omitempty.
MarshalRequest(r) ==
    [user_id |-> OmitEmpty(r.UserID = "", JSONString(r.UserID), ""),
     metadata |-> OmitEmpty(r.Metadata.entries = {}, MarshalMap(r.Metadata),
                            MarshalMap(NilMap)),
     messages |->
        [isNull |-> r.Messages.isNil,
         items |-> [i \in 1..Len(r.Messages.items) |->
                      [role |-> JSONString(r.Messages.items[i].Role),
                       content |-> JSONString(r.Messages.items[i].Content),
                       name |-> OmitEmpty(r.Messages.items[i].Name = "",
                                          JSONString(r.Messages.items[i].Name), "")]]],
     infer |-> r.Infer]

\* json.Unmarshal of a published payload into an AddMemoryRequest: an absent field
\* keeps its zero value.
UnmarshalRequest(j) ==
    [UserID |-> IF j.user_id.present THEN j.user_id.value ELSE "",
     Metadata |-> IF j.metadata.present THEN UnmarshalMap(j.metadata.value) ELSE NilMap,
     Messages |->
        [isNil |-> j.messages.isNull,
         items |-> [i \in 1..Len(j.messages.items) |->
                      [Role |-> j.messages.items[i].role,
                       Content |-> j.messages.items[i].content,
                       Name |-> IF j.messages.items[i].name.present
                                THEN j.messages.items[i].name.value ELSE ""]]],
     Infer |-> j.infer]

\* -------------------------------------------------------- pipeline messages

\* A []Message encoded by json.Marshal: null for a nil slice, else an array.
MarshalMessages(ms) ==
    [isNull |-> ms.isNil,
     items |-> [i \in 1..Len(ms.items) |->
                  [role |-> JSONString(ms.items[i].Role),
                   content |-> JSONString(ms.items[i].Content),
                   name |-> OmitEmpty(ms.items[i].Name = "",
                                      JSONString(ms.items[i].Name), "")]]]

\* json.Unmarshal of a JSON array of messages into a []Message.
UnmarshalMessages(j) ==
    [isNil |-> j.isNull,
     items |-> [i \in 1..Len(j.items) |->
                  [Role |-> j.items[i].role,
                   Content |-> j.items[i].content,
                   Name |-> IF j.items[i].name.present THEN j.items[i].name.value
                            ELSE ""]]]

\* The loop of handleProcessMessage over addReq.Messages and the cut after it:
\* every content followed by a space, without the last space.
RECURSIVE JoinContents(_)
JoinContents(items) ==
    IF items = <<>> THEN ""
    ELSE IF Len(items) = 1 THEN items[1].Content
    ELSE items[1].Content \o " " \o JoinContents(Tail(items))

\* What the OpenAI client returns when its calls succeed.
FactsString == "facts"
OpenAIEmbedding == <<1, 2, 3>>
\* The embedding used when the worker has no OpenAI client: []float32{0, 0, 0}.
DummyEmbedding == <<0, 0, 0>>
ExtractedEntities == <<[ID |-> "e1", Type |-> "person", Name |-> "bob"]>>
ExtractedRelations ==
    <<[SourceID |-> "e1", TargetID |-> "e1", RelationshipType |-> "knows"]>>

\* json.Marshal(processedData): the embedded BaseRequestInfo's fields and
\* extracted_facts are omitempty.
MarshalProcessedMemoryData(d) ==
    [user_id |-> OmitEmpty(d.UserID = "", JSONString(d.UserID), ""),
     metadata |-> OmitEmpty(d.Metadata.entries = {}, MarshalMap(d.Metadata),
                            MarshalMap(NilMap)),
     original_messages |-> MarshalMessages(d.OriginalMessages),
     processed_text |-> JSONString(d.ProcessedText),
     memory_id |-> JSONString(d.MemoryID),
     extracted_facts |-> OmitEmpty(d.ExtractedFacts = <<>>, d.ExtractedFacts, <<>>)]

\* A ProcessedMemoryData decoded without its embedded BaseRequestInfo.
UnmarshalProcessedMemoryDataWithoutBaseInfo(j) ==
    [UserID |-> "",
     Metadata |-> NilMap,
     OriginalMessages |-> UnmarshalMessages(j.original_messages),
     ProcessedText |-> j.processed_text,
     MemoryID |-> j.memory_id,
     ExtractedFacts |-> IF j.extracted_facts.present THEN j.extracted_facts.value
                        ELSE <<>>]

\* json.Unmarshal(payload, &processedData).
UnmarshalProcessedMemoryData(j) ==
    [UserID |-> IF j.user_id.present THEN j.user_id.value ELSE "",
     Metadata |-> IF j.metadata.present THEN UnmarshalMap(j.metadata.value) ELSE NilMap,
     OriginalMessages |-> UnmarshalMessages(j.original_messages),
     ProcessedText |-> j.processed_text,
     MemoryID |-> j.memory_id,
     ExtractedFacts |-> IF j.extracted_facts.present THEN j.extracted_facts.value
                        ELSE <<>>]

\* json.Marshal(embeddingData).
MarshalEmbeddingData(d) ==
    [user_id |-> OmitEmpty(d.UserID = "", JSONString(d.UserID), ""),
     metadata |-> OmitEmpty(d.Metadata.entries = {}, MarshalMap(d.Metadata),
                            MarshalMap(NilMap)),
     memory_id |-> JSONString(d.MemoryID),
     text_to_embed |-> JSONString(d.TextToEmbed),
     embedding |-> d.Embedding,
     processed_text |-> JSONString(d.ProcessedText)]

\* An EmbeddingData decoded with the memory id read from the user_id member.
UnmarshalEmbeddingDataByUserID(j) ==
    [UserID |-> IF j.user_id.present THEN j.user_id.value ELSE "",
     Metadata |-> IF j.metadata.present THEN UnmarshalMap(j.metadata.value) ELSE NilMap,
     MemoryID |-> IF j.user_id.present THEN j.user_id.value ELSE "",
     TextToEmbed |-> j.text_to_embed,
     Embedding |-> j.embedding,
     ProcessedText |-> j.processed_text]

\* json.Unmarshal(payload, &embeddingData).
UnmarshalEmbeddingData(j) ==
    [UserID |-> IF j.user_id.present THEN j.user_id.value ELSE "",
     Metadata |-> IF j.metadata.present THEN UnmarshalMap(j.metadata.value) ELSE NilMap,
     MemoryID |-> j.memory_id,
     TextToEmbed |-> j.text_to_embed,
     Embedding |-> j.embedding,
     ProcessedText |-> j.processed_text]

\* json.Marshal(graphStoreData): entities and relationships are omitempty.
MarshalGraphStoreStorageData(d) ==
    [user_id |-> OmitEmpty(d.UserID = "", JSONString(d.UserID), ""),
     metadata |-> OmitEmpty(d.Metadata.entries = {}, MarshalMap(d.Metadata),
                            MarshalMap(NilMap)),
     memory_id |-> JSONString(d.MemoryID),
     text_for_graph |-> JSONString(d.TextForGraph),
     entities |-> OmitEmpty(d.Entities = <<>>, d.Entities, <<>>),
     relationships |-> OmitEmpty(d.Relationships = <<>>, d.Relationships, <<>>)]

\* json.Unmarshal(payload, &graphData).
UnmarshalGraphStoreStorageData(j) ==
    [UserID |-> IF j.user_id.present THEN j.user_id.value ELSE "",
     Metadata |-> IF j.metadata.present THEN UnmarshalMap(j.metadata.value) ELSE NilMap,
     MemoryID |-> j.memory_id,
     TextForGraph |-> j.text_for_graph,
     Entities |-> IF j.entities.present THEN j.entities.value ELSE <<>>,
     Relationships |-> IF j.relationships.present THEN j.relationships.value ELSE <<>>]

\* json.Marshal(historyEvent): memory_id, user_id and details are omitempty.
MarshalMemoryEvent(ev) ==
    [event_id |-> JSONString(ev.EventID),
     memory_id |-> OmitEmpty(ev.MemoryID = "", JSONString(ev.MemoryID), ""),
     event_type |-> JSONString(ev.EventType),
     timestamp |-> ev.Timestamp,
     user_id |-> OmitEmpty(ev.UserID = "", JSONString(ev.UserID), ""),
     details |-> OmitEmpty(ev.Details.entries = {}, MarshalMap(ev.Details),
                           MarshalMap(NilMap))]

\* A Details map of counters, as the stages build it.
CountersMap(counters) ==
    [isNil |-> FALSE, entries |-> {<<c[1], "int", ToString(c[2])>> : c \in counters}]

\* The payload map of the VectorInput that handleVectorStoreAddMessage builds: its
\* own keys first, then every key of the metadata, which replaces an equal key.
VectorPayload(d, now) ==
    LET own == {<<"text", "string", d.ProcessedText>>,
                <<"user_id", "string", d.UserID>>,
                <<"original_text", "string", d.TextToEmbed>>,
                <<"timestamp", "string", ToString(now)>>}
    IN {e \in own : \A m \in d.Metadata.entries : m[1] # e[1]} \cup d.Metadata.entries

\* ------------------------------------------------------------ the SQL table

\* sql.NullString{String: s, Valid: s != ""}: an empty Go string is bound as NULL.
NullString(s) == [String |-> s, Valid |-> s # ""]

\* The row LogEvent binds to the INSERT statement.
RowOf(ev) ==
    [event_id |-> ev.EventID,
     memory_id |-> NullString(ev.MemoryID),
     event_type |-> ev.EventType,
     timestamp |-> ev.Timestamp,
     user_id |-> NullString(ev.UserID),
     details |-> MarshalMap(ev.Details)]

\* event_id TEXT PRIMARY KEY: an INSERT of an event_id already in the table fails.
PrimaryKeyViolation(tbl, id) == \E i \in 1..Len(tbl) : tbl[i].event_id = id

\* WHERE memory_id = ?: SQL equality; a NULL column equals nothing.
RowMatches(row, memoryID) == row.memory_id.Valid /\ row.memory_id.String = memoryID

\* rows.Scan and the assignments after it: NULL columns come back as "", the details
\* text is unmarshalled when it is non-NULL and non-empty, else an empty map is made.
ScanRow(row) ==
    [EventID |-> row.event_id,
     MemoryID |-> IF row.memory_id.Valid THEN row.memory_id.String ELSE "",
     EventType |-> row.event_type,
     Timestamp |-> row.timestamp,
     UserID |-> IF row.user_id.Valid THEN row.user_id.String ELSE "",
     Details |-> IF row.details.kind \in {"null", "object"}
                 THEN UnmarshalMap(row.details) ELSE EmptyMap]

\* The SELECT without its ORDER BY: the matching rows in insertion (rowid) order.
IsSelectionInInsertionOrder(tbl, memoryID, ord) ==
    /\ Len(ord) = Cardinality({i \in 1..Len(tbl) : RowMatches(tbl[i], memoryID)})
    /\ \A k \in 1..Len(ord) : RowMatches(tbl[ord[k]], memoryID)
    /\ \A k, l \in 1..Len(ord) : k < l => ord[k] < ord[l]

\* ORDER BY timestamp ASC over the matching rows: the row indices in an order of
\* non-decreasing timestamp.  SQL leaves the order of equal timestamps open.
IsOrderedSelection(tbl, memoryID, ord) ==
    /\ Len(ord) = Cardinality({i \in 1..Len(tbl) : RowMatches(tbl[i], memoryID)})
    /\ \A k \in 1..Len(ord) : RowMatches(tbl[ord[k]], memoryID)
    /\ \A k, l \in 1..Len(ord) : k # l => ord[k] # ord[l]
    /\ \A k, l \in 1..Len(ord) : k < l => tbl[ord[k]].timestamp <= tbl[ord[l]].timestamp

Orderings(tbl) == UNION {[1..n -> 1..Len(tbl)] : n \in 0..Len(tbl)}

\* -------------------------------------------------------------------- state

VARIABLES
    db,          \* SQLiteHistoryStore.db: "open", or "nil" once Close has run
    tableExists, \* whether the history table exists in the database
    table,       \* the rows of the history table, in insertion order
    muWriter,    \* SQLiteHistoryStore.mu: the goroutine holding it for writing, or 0
    muReaders,   \* SQLiteHistoryStore.mu: the goroutines holding it for reading
    pc,          \* where each goroutine is in the store operation it runs
    last,        \* the store call that returned last, its arguments and results
    logged,      \* the events LogEvent returned nil for since the table was created
    clock,       \* the latest instant time.Now() has returned
    uuidCount,   \* how many uuids have been drawn
    logCalls,    \* how many LogEvent calls have been made
    nc,          \* memoryServiceImpl.nc: "nil", or "client" for a bus client
    busLog,      \* the Publish calls the bus client has received, and what it returned
    ret,         \* the Add call that returned last, its request and results
    addCalls,    \* how many Add calls have been made
    cfg,         \* Config's switches: EnableGraphStore, EnableInfer
    clients,     \* the workers' backend clients, "nil" or "client": openai, vs, dg
    wstate,      \* where each worker's Start is: "new", "listening", "waiting",
                 \* or what it returned
    ctxDone,     \* whether the context given to the workers' Start is cancelled
    subs,        \* the subscriptions made on the bus client: <<topic, worker>>
    delivered,   \* how many entries of busLog the bus has dealt with
    handled,     \* how many messages each stage handler has handled
    hret,        \* the handler call that returned last, its input and results
    vectors,     \* the vectors inserted into the vector store
    mutations,   \* the mutations executed on the graph store
    reqLog,      \* the Request calls the bus client has received, and what it returned
    history,     \* memoryServiceImpl.history: "nil", or "store" for a HistoryStore
    svcCfg,      \* memoryServiceImpl.cfg: the Config the service was built from
    confRet      \* the Validate or UnmarshalJSON call on a configuration that
                 \* returned last, its input and results

storeVars == <<db, tableExists, table, muWriter, muReaders, pc, last, logged, clock,
               logCalls>>
svcVars == <<nc, busLog, ret, addCalls>>
dbVars == <<db, tableExists, table, muWriter, muReaders, pc, last, logged, logCalls>>
wiringVars == <<cfg, clients, wstate, ctxDone, subs>>
stageVars == <<handled, hret, vectors, mutations>>
workerVars == <<wiringVars, delivered, stageVars>>
opsVars == <<reqLog, history, svcCfg, confRet>>
vars == <<storeVars, uuidCount, svcVars, workerVars, opsVars>>

\* A returned call: the operation, the error, whether s.db was nil when it ran, the
\* event passed to LogEvent before and after the call, GetHistory's argument and
\* the events it returned.
Returned(op, err, wasClosed, evIn, evOut, memoryID, events) ==
    [op |-> op, err |-> err, wasClosed |-> wasClosed, evIn |-> evIn, evOut |-> evOut,
     memoryID |-> memoryID, events |-> events]

NoCall == Returned("none", "nil", FALSE, NoEvent, NoEvent, "", <<>>)

ErrClosed == "SQLiteHistoryStore is closed"
ErrMarshal == "failed to marshal event details to JSON"
ErrPrepare == "failed to prepare insert statement for history"
ErrInsert == "failed to execute insert statement for history"
ErrQuery == "failed to query history"

\* A returned Add call: the request, the identifier and the error returned, and the
\* error the returned error wraps.
AddReturned(req, id, err, cause) ==
    [op |-> "Add", req |-> req, id |-> id, err |-> err, cause |-> cause]

NoAdd == [op |-> "none", req |-> NoRequest, id |-> "", err |-> "nil", cause |-> "nil"]

ErrInvalidRequest == "invalid AddMemoryRequest"
ErrMarshalRequest == "failed to marshal AddMemoryRequest"
ErrPublish == "failed to publish to NATS topic"
\* The error a bus client returns for a publish it rejects.
ErrTransport == "nats: connection closed"

\* Config: the topics of the pipeline, as the example program configures them.
Cfg ==
    [TopicMemoryAddReceived |-> "mem0.memory.add.received",
     TopicMemoryProcess |-> "mem0.memory.process",
     TopicMemoryEmbed |-> "mem0.memory.embed",
     TopicMemoryVectorStoreAdd |-> "mem0.memory.vectorstore.add",
     TopicMemoryGraphStoreAdd |-> "mem0.memory.graphstore.add",
     TopicMemoryHistoryLog |-> "mem0.memory.history.log",
     CollectionName |-> "mem0vectors"]

\* The stage workers.
Workers == {"processing", "embedding", "qdrant", "dgraph"}

\* Every worker with a Start: the stage workers and the history worker.
AllWorkers == Workers \cup {"history"}

\* A returned handler call: the worker, the index in busLog of the message handled,
\* the error returned, and the calls made on the backends with their outcomes.
HandlerReturned(w, msg, err, calls) == [worker |-> w, msg |-> msg, err |-> err, calls |-> calls]

NoHandlerCall == HandlerReturned("none", 0, "nil", {})

ErrMarshalStage == "error marshalling stage data"
ErrEmbedding == "error getting embedding"
ErrNoVectorStore == "VectorStore client is nil"
ErrInsertVectors == "error inserting vectors"
ErrNoDgraph == "Dgraph client is nil"
ErrMutate == "error mutating graph data"
\* The error a backend client returns for a call that fails.
ErrBackend == "backend unavailable"

\* ------------------------------------------------------------ configuration

\* A nil value in a Config field of type interface{}; type is what %T prints.
NilConfig == [type |-> "<nil>"]

\* The values a Config field of type interface{} is given here, each with its
\* runtime type as %T prints it: nil; a Neo4jConfig held by value; a string; the
\* raw JSON that VectorStoreConfig.UnmarshalJSON stores when no provider is named;
\* pointers to a Neo4jConfig, a MemgraphConfig and a QdrantConfig with each field
\* set or empty, the address a URL, a host:port or neither.
ConfigValues ==
    {NilConfig,
     [type |-> "graphs.Neo4jConfig", URL |-> "bolt://graphdb:7687",
      Username |-> "neo4j", Password |-> "graphpassword"],
     [type |-> "string", value |-> "qdrant"],
     [type |-> "json.RawMessage"]}
    \cup [type : {"*graphs.Neo4jConfig", "*graphs.MemgraphConfig"},
          URL : {"bolt://graphdb:7687", ""}, Username : {"neo4j", ""},
          Password : {"graphpassword", ""}]
    \cup [type : {"*vectorstores.QdrantConfig"},
          Address : {"http://qdrant:6333", "qdrant:6334", "not an address", ""},
          CollectionName : {"mem0vectors", ""}]

\* A nil error.
NoError == [kind |-> "nil"]

\* validate.Struct on the struct that v holds or points to: the fields that fail
\* and the tag each fails on, under the namespace ns; none when v holds no struct.
FieldErrors(ns, v) ==
    IF v.type \in {"*graphs.Neo4jConfig", "graphs.Neo4jConfig", "*graphs.MemgraphConfig"}
    THEN {<<ns \o f, "required">> : f \in {g \in {"URL", "Username", "Password"} : v[g] = ""}}
    ELSE IF v.type = "*vectorstores.QdrantConfig"
    THEN (IF v.Address = "" THEN {<<ns \o "Address", "required">>}
          ELSE IF v.Address \notin {"http://qdrant:6333", "qdrant:6334"}
          THEN {<<ns \o "Address", "url|hostname_port">>} ELSE {})
         \cup (IF v.CollectionName = "" THEN {<<ns \o "CollectionName", "required">>}
               ELSE {})
    ELSE {}

\* The provider strings tried: the graph providers, the vector provider, a backend
\* that neither supports, and none.
Providers == {"neo4j", "memgraph", "qdrant", "redis", ""}

\* validate.Struct(c) on a GraphStoreConfig or a VectorStoreConfig: Provider is
\* required and one of the supported; Config is required when it is tagged so, and
\* a struct behind it is validated field by field.
StoreConfigFieldErrors(ns, c, supported, configRequired) ==
    (IF c.Provider = "" THEN {<<ns \o "Provider", "required">>}
     ELSE IF c.Provider \notin supported THEN {<<ns \o "Provider", "oneof">>}
     ELSE {})
    \cup (IF configRequired /\ c.Config = NilConfig THEN {<<ns \o "Config", "required">>}
          ELSE FieldErrors(ns \o "Config.", c.Config))

\* GraphStoreConfig.Validate without the check of the config's type.
GraphStoreConfigValidateFieldsOnly(c) ==
    LET fields == StoreConfigFieldErrors("GraphStoreConfig.", c, {"neo4j", "memgraph"},
                                         FALSE)
    IN IF fields # {} THEN [kind |-> "validation", fields |-> fields] ELSE NoError

\* GraphStoreConfig.Validate.
GraphStoreConfigValidate(c) ==
    LET fields == StoreConfigFieldErrors("GraphStoreConfig.", c, {"neo4j", "memgraph"},
                                         FALSE)
        expected == IF c.Provider = "neo4j" THEN "*graphs.Neo4jConfig"
                    ELSE "*graphs.MemgraphConfig"
    IN IF fields # {} THEN [kind |-> "validation", fields |-> fields]
       ELSE IF c.Provider \in {"neo4j", "memgraph"}
       THEN IF c.Config.type # expected
            THEN [kind |-> "config for provider must be of type",
                  provider |-> c.Provider, expected |-> expected,
                  actual |-> c.Config.type]
            ELSE NoError
       ELSE [kind |-> "provider is valid but has an unexpected config type",
             provider |-> c.Provider, actual |-> c.Config.type]

\* VectorStoreConfig.Validate, with QdrantConfig.Validate.
VectorStoreConfigValidate(c) ==
    LET fields == StoreConfigFieldErrors("VectorStoreConfig.", c, {"qdrant"}, TRUE)
    IN IF fields # {} THEN [kind |-> "validation", fields |-> fields]
       ELSE IF c.Config.type = "*vectorstores.QdrantConfig"
       THEN IF c.Provider # "qdrant"
            THEN [kind |-> "provider but config type is *QdrantConfig",
                  provider |-> c.Provider, actual |-> c.Config.type]
            ELSE IF FieldErrors("QdrantConfig.", c.Config) # {}
            THEN [kind |-> "validation",
                  fields |-> FieldErrors("QdrantConfig.", c.Config)]
            ELSE NoError
       ELSE IF c.Provider = "qdrant"
       THEN [kind |-> "config for provider is of unexpected type",
             provider |-> c.Provider, actual |-> c.Config.type]
       ELSE [kind |-> "unknown config type for provider",
             provider |-> c.Provider, actual |-> c.Config.type]

\* Config.Validate with the fields of the first two topics left out of the
\* required ones.
RequiredFieldsWithoutAddTopics ==
    {"NATSAddress", "OpenAIAPIKey", "TopicMemoryEmbed", "TopicMemoryVectorStoreAdd",
     "TopicMemoryGraphStoreAdd", "TopicMemoryHistoryLog", "TopicMemorySearch",
     "TopicMemoryGet", "TopicMemoryUpdate", "TopicMemoryDelete"}

\* The twelve fields of Config tagged validate:"required".
RequiredFields ==
    {"NATSAddress", "OpenAIAPIKey", "TopicMemoryAddReceived", "TopicMemoryProcess",
     "TopicMemoryEmbed", "TopicMemoryVectorStoreAdd", "TopicMemoryGraphStoreAdd",
     "TopicMemoryHistoryLog", "TopicMemorySearch", "TopicMemoryGet",
     "TopicMemoryUpdate", "TopicMemoryDelete"}

\* Config.Validate: validate.Struct(c), which checks the required fields and the
\* tags of the nested configs that are not nil, then the nested Validate calls.  A
\* nested config is a pointer: isNil, or elem.
ConfigValidate(c) ==
    LET fields ==
            {<<"Config." \o f, "required">> : f \in {g \in RequiredFields : c[g] = ""}}
            \cup (IF c.GraphConfig.isNil THEN {}
                  ELSE StoreConfigFieldErrors("Config.GraphConfig.", c.GraphConfig.elem,
                                              {"neo4j", "memgraph"}, FALSE))
            \cup (IF c.VectorStoreConfig.isNil THEN {}
                  ELSE StoreConfigFieldErrors("Config.VectorStoreConfig.",
                                              c.VectorStoreConfig.elem, {"qdrant"}, TRUE))
        graph == IF c.GraphConfig.isNil THEN NoError
                 ELSE GraphStoreConfigValidate(c.GraphConfig.elem)
        vector == IF c.VectorStoreConfig.isNil THEN NoError
                  ELSE VectorStoreConfigValidate(c.VectorStoreConfig.elem)
    IN IF fields # {} THEN [kind |-> "validation", fields |-> fields]
       ELSE IF graph # NoError
       THEN [kind |-> "graph_config validation failed", cause |-> graph]
       ELSE IF vector # NoError
       THEN [kind |-> "vector_store_config validation failed", cause |-> vector]
       ELSE NoError

\* json.Unmarshal(raw, &v) for a provider's config struct v of the given type, raw
\* being the payload's config member: absent, null, a JSON string, or an object
\* given by its members.  An object sets the fields it names; null sets none; no
\* bytes at all is a syntax error and a string a type error.
UnmarshalStruct(type, raw) ==
    LET Member(name) ==
            IF \E m \in raw.members : m[1] = name
            THEN (CHOOSE m \in raw.members : m[1] = name)[2]
            ELSE ""
    IN [err |-> IF raw.kind = "absent" THEN [kind |-> "unexpected end of JSON input"]
                ELSE IF raw.kind = "string"
                THEN [kind |-> "json: cannot unmarshal string into Go value"]
                ELSE NoError,
        value |-> IF type = "*vectorstores.QdrantConfig"
                  THEN [type |-> type, Address |-> Member("address"),
                        CollectionName |-> Member("collection_name")]
                  ELSE [type |-> type, URL |-> Member("url"),
                        Username |-> Member("username"),
                        Password |-> Member("password")]]

\* GraphStoreConfig.UnmarshalJSON storing the decoded Neo4jConfig by value.
GraphStoreConfigUnmarshalJSONByValue(payload) ==
    [err |-> NoError,
     out |-> [Provider |-> payload.provider,
              Config |-> UnmarshalStruct("graphs.Neo4jConfig", payload.config).value]]

\* GraphStoreConfig.UnmarshalJSON on the payload {provider, config}: the error,
\* and the receiver after the call.
GraphStoreConfigUnmarshalJSON(payload) ==
    LET provider == payload.provider
        decoded == UnmarshalStruct(IF provider = "neo4j" THEN "*graphs.Neo4jConfig"
                                   ELSE "*graphs.MemgraphConfig", payload.config)
    IN IF provider \in {"neo4j", "memgraph"}
       THEN IF decoded.err # NoError
            THEN [err |-> [kind |-> "failed to unmarshal " \o provider \o " config",
                           cause |-> decoded.err],
                  out |-> [Provider |-> provider, Config |-> NilConfig]]
            ELSE [err |-> NoError,
                  out |-> [Provider |-> provider, Config |-> decoded.value]]
       ELSE [err |-> [kind |-> "unknown graph store provider", provider |-> provider],
             out |-> [Provider |-> provider, Config |-> NilConfig]]

\* VectorStoreConfig.UnmarshalJSON on the payload {provider, config}.
VectorStoreConfigUnmarshalJSON(payload) ==
    LET provider == payload.provider
        decoded == UnmarshalStruct("*vectorstores.QdrantConfig", payload.config)
        Rejected(err) == [err |-> err,
                          out |-> [Provider |-> provider, Config |-> NilConfig]]
    IN IF payload.config.kind = "absent"
       THEN IF provider # ""
            THEN Rejected([kind |-> "config field is missing for provider",
                           provider |-> provider])
            ELSE [err |-> NoError, out |-> [Provider |-> provider, Config |-> NilConfig]]
       ELSE IF provider = "qdrant"
       THEN IF decoded.err # NoError
            THEN Rejected([kind |-> "error unmarshalling qdrant config",
                           cause |-> decoded.err])
            ELSE [err |-> NoError,
                  out |-> [Provider |-> provider, Config |-> decoded.value]]
       ELSE IF provider # ""
       THEN Rejected([kind |-> "unsupported vector store provider",
                      provider |-> provider])
       ELSE [err |-> NoError,
             out |-> [Provider |-> provider, Config |-> [type |-> "json.RawMessage"]]]

\* The payloads decoded here: every provider with a config member that is absent,
\* null, a string, an empty object, or an object with a graph config's or a
\* QdrantConfig's members.
Payloads ==
    [provider : Providers,
     config : [kind : {"absent", "null", "string", "object"}, members : {{}}]
              \cup {[kind |-> "object",
                     members |-> {<<"url", u>>, <<"username", n>>, <<"password", p>>}] :
                      u \in {"bolt://graphdb:7687", ""}, n \in {"neo4j", ""},
                      p \in {"graphpassword", ""}}
              \cup {[kind |-> "object",
                     members |-> {<<"address", a>>, <<"collection_name", c>>}] :
                      a \in {"http://qdrant:6333", "qdrant:6334", "not an address", ""},
                      c \in {"mem0vectors", ""}}]

\* The GraphStoreConfig and VectorStoreConfig values built programmatically.
StoreConfigs == [Provider : Providers, Config : ConfigValues]

\* The Config the example program loads.
ExampleConfig ==
    [NATSAddress |-> "nats://localhost:4222",
     OpenAIAPIKey |-> "sk-examplekey",
     TopicMemoryAddReceived |-> Cfg.TopicMemoryAddReceived,
     TopicMemoryProcess |-> Cfg.TopicMemoryProcess,
     TopicMemoryEmbed |-> Cfg.TopicMemoryEmbed,
     TopicMemoryVectorStoreAdd |-> Cfg.TopicMemoryVectorStoreAdd,
     TopicMemoryGraphStoreAdd |-> Cfg.TopicMemoryGraphStoreAdd,
     TopicMemoryHistoryLog |-> Cfg.TopicMemoryHistoryLog,
     TopicMemorySearch |-> "mem0.memory.search",
     TopicMemoryGet |-> "mem0.memory.get",
     TopicMemoryUpdate |-> "mem0.memory.update",
     TopicMemoryDelete |-> "mem0.memory.delete",
     EnableGraphStore |-> TRUE,
     EnableInfer |-> TRUE,
     GraphConfig |->
         [isNil |-> FALSE,
          elem |-> [Provider |-> "neo4j",
                    Config |-> [type |-> "*graphs.Neo4jConfig",
                                URL |-> "bolt://graphdb:7687", Username |-> "neo4j",
                                Password |-> "graphpassword"]]],
     VectorStoreConfig |->
         [isNil |-> FALSE,
          elem |-> [Provider |-> "qdrant",
                    Config |-> [type |-> "*vectorstores.QdrantConfig",
                                Address |-> "http://qdrant:6333",
                                CollectionName |-> "mem0vectors"]]]]

\* The Config values validated here: the example's with at most one string field
\* emptied, graph storage enabled or not, and each nested config nil, the
\* example's, or one with a provider and a config out of a few.
Configs ==
    LET nested ==
            {[isNil |-> TRUE, elem |-> [Provider |-> "", Config |-> NilConfig]]}
            \cup {[isNil |-> FALSE, elem |-> c] :
                    c \in {s \in StoreConfigs :
                             /\ s.Provider \in {"neo4j", "qdrant"}
                             /\ s.Config \in {NilConfig,
                                              ExampleConfig.GraphConfig.elem.Config,
                                              ExampleConfig.VectorStoreConfig.elem.Config,
                                              [ExampleConfig.GraphConfig.elem.Config
                                                EXCEPT !.URL = ""],
                                              [ExampleConfig.VectorStoreConfig.elem.Config
                                                EXCEPT !.Address = "not an address"]}}}
    IN {[[ExampleConfig EXCEPT ![f] = IF empty THEN "" ELSE @]
           EXCEPT !.GraphConfig = g, !.VectorStoreConfig = q, !.EnableGraphStore = e] :
          f \in DOMAIN ExampleConfig \ {"EnableGraphStore", "EnableInfer", "GraphConfig",
                                         "VectorStoreConfig"},
          empty \in BOOLEAN, g \in nested, q \in nested, e \in BOOLEAN}

\* No Validate or UnmarshalJSON call has returned.
NoConfCall ==
    [op |-> "none", in |-> NilConfig, err |-> NoError,
     out |-> [Provider |-> "", Config |-> NilConfig]]

\* The service's other operations and the configuration before any call on them.
OpsInit ==
    /\ reqLog = <<>>
    /\ history = "store"
    /\ svcCfg = ExampleConfig
    /\ confRet = NoConfCall

\* The workers before any Start or handler call, with both switches off.
WorkersInit ==
    /\ cfg = [EnableGraphStore |-> FALSE, EnableInfer |-> FALSE]
    /\ clients = [openai |-> "client", vs |-> "client", dg |-> "client"]
    /\ wstate = [w \in AllWorkers |-> "new"]
    /\ ctxDone = FALSE
    /\ subs = {}
    /\ delivered = 0
    /\ handled = [w \in Workers |-> 0]
    /\ hret = NoHandlerCall
    /\ vectors = <<>>
    /\ mutations = <<>>
    /\ OpsInit

\* A goroutine waiting in mu.Lock().
WaitsForWrite(p) == pc[p] \in {"New:create:Lock", "Reset:create:Lock"}

\* NewSQLiteHistoryStore has returned the store to its callers.
Constructed == \A p \in Procs : pc[p] \notin {"New:create:Lock", "New:create:cs"}

\* sync.RWMutex.Lock: proceeds when no goroutine holds the lock.
CanLock == muWriter = 0 /\ muReaders = {}

\* An RLock that does not wait for a writer.
CanRLockUnderWriter == TRUE

\* sync.RWMutex.RLock: proceeds when no writer holds the lock or waits for it.
CanRLock == muWriter = 0 /\ \A q \in Procs : ~WaitsForWrite(q)

\* The state in NewSQLiteHistoryStore after sql.Open and Ping, calling
\* _createHistoryTable on goroutine 1.
StoreInit ==
    /\ db = "open"
    /\ tableExists = FALSE
    /\ table = <<>>
    /\ muWriter = 0
    /\ muReaders = {}
    /\ pc = [p \in Procs |-> IF p = 1 THEN "New:create:Lock" ELSE "idle"]
    /\ last = NoCall
    /\ logged = <<>>
    /\ clock = 1
    /\ uuidCount = 0
    /\ logCalls = 0
    /\ nc = "client"
    /\ busLog = <<>>
    /\ ret = NoAdd
    /\ addCalls = 0
    /\ WorkersInit

\* s.mu.Lock() returns: a caller enters LogEvent, Reset or Close, or a goroutine
\* inside NewSQLiteHistoryStore or Reset enters _createHistoryTable.
Lock(p) ==
    /\ UNCHANGED <<svcVars, workerVars, opsVars>>
    /\ CanLock
    /\ \/ /\ pc[p] \in {"New:create:Lock", "Reset:create:Lock"}
          /\ pc' = [pc EXCEPT ![p] = IF pc[p] = "New:create:Lock" THEN "New:create:cs"
                                     ELSE "Reset:create:cs"]
          /\ UNCHANGED logCalls
       \/ /\ Constructed
          /\ pc[p] = "idle"
          /\ \E op \in {"LogEvent", "Reset", "Close"} :
                /\ op = "LogEvent" => logCalls < MaxLogCalls
                /\ logCalls' = IF op = "LogEvent" THEN logCalls + 1 ELSE logCalls
                /\ pc' = [pc EXCEPT ![p] = IF op = "LogEvent" THEN "LogEvent:cs"
                                           ELSE IF op = "Reset" THEN "Reset:cs"
                                           ELSE "Close:cs"]
    /\ muWriter' = p
    /\ UNCHANGED <<db, tableExists, table, muReaders, last, logged, clock, uuidCount>>

\* s.mu.RLock() returns: a caller enters GetHistory.
RLock(p) ==
    /\ UNCHANGED <<svcVars, workerVars, opsVars>>
    /\ Constructed
    /\ pc[p] = "idle"
    /\ CanRLock
    /\ muReaders' = muReaders \cup {p}
    /\ pc' = [pc EXCEPT ![p] = "GetHistory:cs"]
    /\ UNCHANGED <<db, tableExists, table, muWriter, last, logged, clock, uuidCount,
                   logCalls>>

\* _createHistoryTable under the lock: CREATE TABLE IF NOT EXISTS and its indexes,
\* then the deferred Unlock.  Called by NewSQLiteHistoryStore and by Reset; back in
\* Reset the deferred Unlock of Reset runs on a mutex that is no longer locked,
\* which the Go runtime ends with a fatal error.
CreateHistoryTable(p) ==
    /\ UNCHANGED <<svcVars, workerVars, opsVars>>
    /\ pc[p] \in {"New:create:cs", "Reset:create:cs"}
    /\ tableExists' = TRUE
    /\ table' = IF tableExists THEN table ELSE <<>>
    /\ muWriter' = 0
    /\ pc' = [pc EXCEPT ![p] = IF pc[p] = "New:create:cs" THEN "idle" ELSE "fatal"]
    /\ UNCHANGED <<db, muReaders, last, logged, clock, uuidCount, logCalls>>

\* What s.db.PrepareContext, QueryContext, ExecContext and Close do on a nil *sql.DB: a nil
\* pointer dereference, a run-time panic.
UseOfDBPanics == db = "nil"

\* LogEvent without its closed check.
StoreClosedUnchecked == FALSE

\* LogEvent's closed check: s.db == nil.
StoreClosed == db = "nil"

\* LogEvent assigning a uuid and the current time to every event.
WithDefaultsAlways(ev, uuid, now) == [ev EXCEPT !.EventID = uuid, !.Timestamp = now]

\* The event after LogEvent's defaults: a fresh uuid for an empty event_id, the
\* current time for a zero timestamp.
WithDefaults(ev, uuid, now) ==
    [ev EXCEPT !.EventID = IF ev.EventID = "" THEN uuid ELSE ev.EventID,
               !.Timestamp = IF ev.Timestamp = 0 THEN now ELSE ev.Timestamp]

\* INSERT OR REPLACE: a stored row with the same event_id is deleted, and the new
\* row appended.
InsertOrReplaceRow(tbl, row) ==
    LET kept == {i \in 1..Len(tbl) : tbl[i].event_id # row.event_id}
        keptSeq(n) == CHOOSE f \in [1..n -> kept] : \A i, j \in 1..n : i < j => f[i] < f[j]
        f == keptSeq(Cardinality(kept))
    IN [ok |-> TRUE, rows |-> Append([i \in 1..Cardinality(kept) |-> tbl[f[i]]], row)]

\* INSERT INTO history ... VALUES (...): the row is appended, unless its event_id
\* is already in the table, and then the statement fails and changes nothing.
InsertRow(tbl, row) ==
    IF PrimaryKeyViolation(tbl, row.event_id)
    THEN [ok |-> FALSE, rows |-> tbl]
    ELSE [ok |-> TRUE, rows |-> Append(tbl, row)]

\* The error LogEvent returns for the event (after defaults) it tries to insert.
LogEventError(ev) ==
    IF MarshalMapFails(ev.Details) THEN ErrMarshal
    ELSE IF ~tableExists THEN ErrPrepare
    ELSE IF ~InsertRow(table, RowOf(ev)).ok THEN ErrInsert
    ELSE "nil"

\* LogEvent under the lock, and its deferred Unlock.
LogEvent(p) ==
    /\ UNCHANGED <<svcVars, workerVars, opsVars>>
    /\ pc[p] = "LogEvent:cs"
    /\ muWriter' = 0
    /\ \E ev \in EventInputs, now \in {t \in Instants : t >= clock} :
        IF StoreClosed
        THEN /\ last' = Returned("LogEvent", ErrClosed, db = "nil", ev, ev, "", <<>>)
             /\ pc' = [pc EXCEPT ![p] = "idle"]
             /\ UNCHANGED <<table, logged, clock, uuidCount>>
        ELSE LET drawsUUID == ev.EventID = ""
                 readsClock == ev.Timestamp = 0
                 out == WithDefaults(ev, UUIDs[uuidCount + 1], now)
                 err == LogEventError(out)
             IN /\ uuidCount' = IF drawsUUID THEN uuidCount + 1 ELSE uuidCount
                /\ clock' = IF readsClock THEN now ELSE clock
                /\ IF err # ErrMarshal /\ UseOfDBPanics
                   THEN /\ pc' = [pc EXCEPT ![p] = "panic"]
                        /\ UNCHANGED <<table, logged, last>>
                   ELSE /\ table' = IF err = "nil" THEN InsertRow(table, RowOf(out)).rows
                                    ELSE table
                        /\ logged' = IF err = "nil" THEN Append(logged, out) ELSE logged
                        /\ last' = Returned("LogEvent", err, db = "nil", ev, out, "", <<>>)
                        /\ pc' = [pc EXCEPT ![p] = "idle"]
    /\ UNCHANGED <<db, tableExists, muReaders, logCalls>>

\* GetHistory under the read lock, and its deferred RUnlock.
GetHistory(p) ==
    /\ UNCHANGED <<svcVars, workerVars, opsVars>>
    /\ pc[p] = "GetHistory:cs"
    /\ muReaders' = muReaders \ {p}
    /\ \E memoryID \in MemoryIDs :
        IF UseOfDBPanics
        THEN /\ pc' = [pc EXCEPT ![p] = "panic"]
             /\ UNCHANGED last
        ELSE IF ~tableExists
        THEN /\ pc' = [pc EXCEPT ![p] = "idle"]
             /\ last' = Returned("GetHistory", ErrQuery, FALSE, NoEvent, NoEvent,
                                 memoryID, <<>>)
        ELSE \E ord \in Orderings(table) :
                /\ IsOrderedSelection(table, memoryID, ord)
                /\ pc' = [pc EXCEPT ![p] = "idle"]
                /\ last' = Returned("GetHistory", "nil", FALSE, NoEvent, NoEvent,
                                    memoryID,
                                    [k \in 1..Len(ord) |-> ScanRow(table[ord[k]])])
    /\ UNCHANGED <<db, tableExists, table, muWriter, logged, clock, uuidCount, logCalls>>

\* Reset under the lock: DROP TABLE IF EXISTS history, then the call of
\* _createHistoryTable, which takes s.mu.Lock() itself while Reset still holds it.
Reset(p) ==
    /\ UNCHANGED <<svcVars, workerVars, opsVars>>
    /\ pc[p] = "Reset:cs"
    /\ IF UseOfDBPanics
       THEN /\ pc' = [pc EXCEPT ![p] = "panic"]
            /\ muWriter' = 0
            /\ UNCHANGED <<tableExists, table, logged>>
       ELSE /\ tableExists' = FALSE
            /\ table' = <<>>
            /\ logged' = <<>>
            /\ pc' = [pc EXCEPT ![p] = "Reset:create:Lock"]
            /\ UNCHANGED muWriter
    /\ UNCHANGED <<db, muReaders, last, clock, uuidCount, logCalls>>

\* Close without its check of s.db.
CloseUnchecked == TRUE

\* Close's check before it closes the database: s.db != nil.
CloseFindsDB == db # "nil"

\* Close under the lock: closes the database and sets s.db to nil the first time,
\* returns nil without doing anything after that.
Close(p) ==
    /\ UNCHANGED <<svcVars, workerVars, opsVars>>
    /\ pc[p] = "Close:cs"
    /\ IF CloseFindsDB /\ UseOfDBPanics
       THEN /\ pc' = [pc EXCEPT ![p] = "panic"]
            /\ UNCHANGED <<db, last>>
       ELSE /\ db' = "nil"
            /\ last' = Returned("Close", "nil", db = "nil", NoEvent, NoEvent, "", <<>>)
            /\ pc' = [pc EXCEPT ![p] = "idle"]
    /\ muWriter' = 0
    /\ UNCHANGED <<tableExists, table, muReaders, logged, clock, uuidCount, logCalls>>

\* The steps of goroutine p.
StoreStep(p) ==
    \/ Lock(p)
    \/ RLock(p)
    \/ CreateHistoryTable(p)
    \/ LogEvent(p)
    \/ GetHistory(p)
    \/ Reset(p)
    \/ Close(p)

StoreNext == \E p \in Procs : StoreStep(p)

\* The history store used by NumProcs goroutines.
SpecStore == StoreInit /\ [][StoreNext]_vars

\* The same, with the Go scheduler's guarantee that a goroutine that can run does.
SpecStoreFair == SpecStore /\ \A p \in Procs : WF_vars(StoreStep(p))

\* ------------------------------------------------------------ memory service

\* The state after NewMemoryService, which stores the bus client it is given, nil
\* or not, next to a history store that has been constructed.
ServiceInit ==
    /\ db = "open"
    /\ tableExists = TRUE
    /\ table = <<>>
    /\ muWriter = 0
    /\ muReaders = {}
    /\ pc = [p \in Procs |-> "idle"]
    /\ last = NoCall
    /\ logged = <<>>
    /\ clock = 1
    /\ uuidCount = 0
    /\ logCalls = 0
    /\ nc \in {"nil", "client"}
    /\ busLog = <<>>
    /\ ret = NoAdd
    /\ addCalls = 0
    /\ WorkersInit

\* Add with a publish that is tried again when the bus rejects it.
PublishWithRetry(topic, data, outcome) ==
    IF outcome = "nil" THEN <<[topic |-> topic, data |-> data, err |-> outcome]>>
    ELSE <<[topic |-> topic, data |-> data, err |-> outcome],
           [topic |-> topic, data |-> data, err |-> outcome]>>

\* s.nc.Publish(ctx, topic, jsonData): the calls Add makes on the bus client, with
\* what the client returns.
Publish(topic, data, outcome) == <<[topic |-> topic, data |-> data, err |-> outcome]>>

\* Add: validate, draw the memory id, marshal the request, publish it when there is
\* a bus client, return the id.
Add ==
    /\ addCalls < MaxAddCalls
    /\ addCalls' = addCalls + 1
    /\ \E req \in AddMemoryRequests, outcome \in {"nil", ErrTransport} :
        IF ~ValidAddMemoryRequest(req)
        THEN /\ ret' = AddReturned(req, "", ErrInvalidRequest, "validation")
             /\ UNCHANGED <<busLog, uuidCount>>
        ELSE /\ uuidCount' = uuidCount + 1
             /\ IF MarshalRequestFails(req)
                THEN /\ ret' = AddReturned(req, "", ErrMarshalRequest, "json")
                     /\ UNCHANGED busLog
                ELSE IF nc # "nil"
                THEN /\ busLog' = busLog \o Publish(Cfg.TopicMemoryAddReceived,
                                                    MarshalRequest(req), outcome)
                     /\ ret' = IF outcome # "nil"
                               THEN AddReturned(req, "", ErrPublish, outcome)
                               ELSE AddReturned(req, UUIDs[uuidCount + 1], "nil", "nil")
                ELSE /\ ret' = AddReturned(req, UUIDs[uuidCount + 1], "nil", "nil")
                     /\ UNCHANGED busLog
    /\ UNCHANGED <<storeVars, nc, workerVars, opsVars>>

ServiceNext == Add

\* The memory service, with or without a bus client, taking Add calls.
SpecService == ServiceInit /\ [][ServiceNext]_vars

\* ------------------------------------------------------------ stage workers

\* w.nc.Publish(...) in a stage handler, which every handler guards by w.nc != nil.
WorkerPublish(topic, data, outcome) ==
    IF nc # "nil" THEN Publish(topic, data, outcome) ELSE <<>>

\* A handler that returns the error of its MemoryEvent's publish.
ReturnAfterEventEscalated(outcome) == IF outcome = "nil" THEN "nil" ELSE ErrPublish

\* What a handler returns after it tried to publish its MemoryEvent: the error of
\* the publish is printed and the handler returns nil.
ReturnAfterEvent(outcome) == "nil"

\* A processing stage that keys the memory by the identifier Add returned.
MemoryIDFromAdd == ret.id

\* memoryID := uuid.New().String() in handleProcessMessage: a fresh identifier.
NewMemoryID == UUIDs[uuidCount + 1]

\* A pipeline that takes graph storage as enabled whatever the configuration says.
GraphStoreEnabledAlways == TRUE

\* w.cfg.EnableGraphStore, the switch the embedding handler and the graph worker's
\* Start read.
GraphStoreEnabled == cfg.EnableGraphStore

\* Facts that are set whatever ExtractFacts returned.
ExtractedFactsAlways(outcome) == <<FactsString>>

\* extractedFacts after the call of ExtractFacts: the facts string as one fact when
\* the call succeeded, still nil when it failed.
ExtractedFacts(outcome) == IF outcome = "nil" THEN <<FactsString>> ELSE <<>>

\* A handler that goes on after a failed backend call.
FailedIgnored(outcome) == FALSE

\* if err != nil after GetEmbedding, InsertVectors and Mutate: the branch in which
\* the handler returns the error.
Failed(outcome) == outcome # "nil"

\* The outcomes of a call on the bus client and of a call on a backend client.
PublishOutcomes == {"nil", ErrTransport}
BackendOutcomes == {"nil", ErrBackend}

\* handleProcessMessage(payload) for the message at index i of the bus log: decode
\* the AddMemoryRequest, join the contents, mint the memory id, extract facts when
\* inference is on, publish the ProcessedMemoryData and the MEMORY_PROCESSED event.
HandleProcessMessage(i) ==
    /\ handled' = [handled EXCEPT !["processing"] = @ + 1]
    /\ \E facts \in BackendOutcomes, embedOutcome \in PublishOutcomes,
          eventOutcome \in PublishOutcomes, now \in {t \in Instants : t >= clock} :
        LET addReq == UnmarshalRequest(busLog[i].data)
            processedText == JoinContents(addReq.Messages.items)
            memoryID == NewMemoryID
            callsOpenAI == cfg.EnableInfer /\ clients.openai # "nil"
            extractedFacts ==
                IF callsOpenAI THEN ExtractedFacts(facts) ELSE <<>>
            processedData ==
                [UserID |-> addReq.UserID, Metadata |-> addReq.Metadata,
                 OriginalMessages |-> addReq.Messages, ProcessedText |-> processedText,
                 MemoryID |-> memoryID, ExtractedFacts |-> extractedFacts]
            historyEvent ==
                [EventID |-> UUIDs[uuidCount + 2], MemoryID |-> memoryID,
                 EventType |-> "MEMORY_PROCESSED", Timestamp |-> now,
                 UserID |-> addReq.UserID,
                 Details |-> CountersMap(
                     {<<"original_message_count", Len(addReq.Messages.items)>>,
                      <<"facts_extracted_count", Len(extractedFacts)>>})]
            calls == IF callsOpenAI THEN {<<"ExtractFacts", facts>>} ELSE {}
        IN IF MarshalMapFails(processedData.Metadata)
           THEN /\ hret' = HandlerReturned("processing", i, ErrMarshalStage, calls)
                /\ uuidCount' = uuidCount + 1
                /\ UNCHANGED <<busLog, clock>>
           ELSE /\ busLog' = busLog
                        \o WorkerPublish(Cfg.TopicMemoryEmbed,
                                         MarshalProcessedMemoryData(processedData),
                                         embedOutcome)
                        \o WorkerPublish(Cfg.TopicMemoryHistoryLog,
                                         MarshalMemoryEvent(historyEvent), eventOutcome)
                /\ uuidCount' = uuidCount + 2
                /\ clock' = now
                /\ hret' = HandlerReturned("processing", i, ReturnAfterEvent(eventOutcome),
                                        calls)
    /\ UNCHANGED <<dbVars, nc, ret, addCalls, wiringVars, opsVars, vectors, mutations>>

\* handleEmbedMessage(payload): decode the ProcessedMemoryData, get the embedding,
\* publish the EmbeddingData and, when graph storage is enabled, the
\* GraphStoreStorageData.
HandleEmbedMessage(i) ==
    /\ handled' = [handled EXCEPT !["embedding"] = @ + 1]
    /\ \E got \in BackendOutcomes, vectorOutcome \in PublishOutcomes,
          graphOutcome \in PublishOutcomes :
        LET processedData == UnmarshalProcessedMemoryData(busLog[i].data)
            callsOpenAI == clients.openai # "nil"
            embedding == IF callsOpenAI THEN OpenAIEmbedding ELSE DummyEmbedding
            embeddingData ==
                [UserID |-> processedData.UserID, Metadata |-> processedData.Metadata,
                 MemoryID |-> processedData.MemoryID,
                 TextToEmbed |-> processedData.ProcessedText,
                 Embedding |-> embedding,
                 ProcessedText |-> processedData.ProcessedText]
            graphStoreData ==
                [UserID |-> processedData.UserID, Metadata |-> processedData.Metadata,
                 MemoryID |-> processedData.MemoryID,
                 TextForGraph |-> processedData.ProcessedText,
                 Entities |-> <<>>, Relationships |-> <<>>]
            calls == IF callsOpenAI THEN {<<"GetEmbedding", got>>} ELSE {}
        IN IF callsOpenAI /\ Failed(got)
           THEN /\ hret' = HandlerReturned("embedding", i, ErrEmbedding, calls)
                /\ UNCHANGED busLog
           ELSE IF MarshalMapFails(embeddingData.Metadata)
           THEN /\ hret' = HandlerReturned("embedding", i, ErrMarshalStage, calls)
                /\ UNCHANGED busLog
           ELSE /\ busLog' = busLog
                        \o WorkerPublish(Cfg.TopicMemoryVectorStoreAdd,
                                         MarshalEmbeddingData(embeddingData),
                                         vectorOutcome)
                        \o (IF GraphStoreEnabled
                            THEN WorkerPublish(Cfg.TopicMemoryGraphStoreAdd,
                                     MarshalGraphStoreStorageData(graphStoreData),
                                     graphOutcome)
                            ELSE <<>>)
                /\ hret' = HandlerReturned("embedding", i, "nil", calls)
    /\ UNCHANGED <<dbVars, clock, uuidCount, nc, ret, addCalls, wiringVars, opsVars,
                   vectors, mutations>>

\* A vector-store handler that deduplicates: it inserts the vector and publishes the
\* event only when no vector is stored under the memory id yet.
HandleVectorStoreAddMessageOnce(i) ==
    LET embeddingData == UnmarshalEmbeddingData(busLog[i].data)
        known == \E v \in DOMAIN vectors : vectors[v].ID = embeddingData.MemoryID
        historyEvent ==
            [EventID |-> UUIDs[uuidCount + 1], MemoryID |-> embeddingData.MemoryID,
             EventType |-> "VECTOR_STORE_ADD", Timestamp |-> clock,
             UserID |-> embeddingData.UserID,
             Details |-> CountersMap({<<"embedding_dim", Len(embeddingData.Embedding)>>})]
    IN /\ handled' = [handled EXCEPT !["qdrant"] = @ + 1]
       /\ hret' = HandlerReturned("qdrant", i, "nil",
                                  IF known THEN {} ELSE {<<"InsertVectors", "nil">>})
       /\ vectors' = IF known THEN vectors
                     ELSE Append(vectors,
                                 [collection |-> Cfg.CollectionName,
                                  ID |-> embeddingData.MemoryID,
                                  Embedding |-> embeddingData.Embedding,
                                  Payload |-> VectorPayload(embeddingData, clock)])
       /\ busLog' = IF known THEN busLog
                    ELSE busLog \o WorkerPublish(Cfg.TopicMemoryHistoryLog,
                                                 MarshalMemoryEvent(historyEvent), "nil")
       /\ uuidCount' = IF known THEN uuidCount ELSE uuidCount + 1
       /\ UNCHANGED <<dbVars, clock, nc, ret, addCalls, wiringVars, opsVars, mutations>>

\* handleVectorStoreAddMessage(payload): decode the EmbeddingData, insert the vector
\* under the memory id, publish the VECTOR_STORE_ADD event.  The two readings of
\* the clock are taken as one.
HandleVectorStoreAddMessage(i) ==
    /\ handled' = [handled EXCEPT !["qdrant"] = @ + 1]
    /\ \E inserted \in BackendOutcomes, eventOutcome \in PublishOutcomes,
          now \in {t \in Instants : t >= clock} :
        LET embeddingData == UnmarshalEmbeddingData(busLog[i].data)
            vectorInput ==
                [collection |-> Cfg.CollectionName, ID |-> embeddingData.MemoryID,
                 Embedding |-> embeddingData.Embedding,
                 Payload |-> VectorPayload(embeddingData, now)]
            historyEvent ==
                [EventID |-> UUIDs[uuidCount + 1], MemoryID |-> embeddingData.MemoryID,
                 EventType |-> "VECTOR_STORE_ADD", Timestamp |-> now,
                 UserID |-> embeddingData.UserID,
                 Details |-> CountersMap(
                     {<<"embedding_dim", Len(embeddingData.Embedding)>>})]
            calls == {<<"InsertVectors", inserted>>}
        IN IF clients.vs = "nil"
           THEN /\ hret' = HandlerReturned("qdrant", i, ErrNoVectorStore, {})
                /\ UNCHANGED <<busLog, vectors, uuidCount, clock>>
           ELSE IF Failed(inserted)
           THEN /\ hret' = HandlerReturned("qdrant", i, ErrInsertVectors, calls)
                /\ clock' = now
                /\ UNCHANGED <<busLog, vectors, uuidCount>>
           ELSE /\ vectors' = Append(vectors, vectorInput)
                /\ busLog' = busLog
                        \o WorkerPublish(Cfg.TopicMemoryHistoryLog,
                                         MarshalMemoryEvent(historyEvent), eventOutcome)
                /\ uuidCount' = uuidCount + 1
                /\ clock' = now
                /\ hret' = HandlerReturned("qdrant", i, ReturnAfterEvent(eventOutcome),
                                        calls)
    /\ UNCHANGED <<dbVars, nc, ret, addCalls, wiringVars, opsVars, mutations>>

\* handleGraphStoreAddMessage(payload): decode the GraphStoreStorageData, extract
\* entities and relations when the message lacks them and there is an OpenAI
\* client, mutate the graph when there is something to store, publish the
\* GRAPH_STORE_ADD event.
HandleGraphStoreAddMessage(i) ==
    /\ handled' = [handled EXCEPT !["dgraph"] = @ + 1]
    /\ \E extracted \in BackendOutcomes \cup {"nothing"}, mutated \in BackendOutcomes,
          eventOutcome \in PublishOutcomes, now \in {t \in Instants : t >= clock} :
        LET graphData == UnmarshalGraphStoreStorageData(busLog[i].data)
            callsOpenAI ==
                /\ graphData.Entities = <<>> \/ graphData.Relationships = <<>>
                /\ clients.openai # "nil"
            entities == IF callsOpenAI /\ extracted = "nil" THEN ExtractedEntities
                        ELSE IF callsOpenAI /\ extracted = "nothing" THEN <<>>
                        ELSE graphData.Entities
            relationships == IF callsOpenAI /\ extracted = "nil" THEN ExtractedRelations
                             ELSE IF callsOpenAI /\ extracted = "nothing" THEN <<>>
                             ELSE graphData.Relationships
            callsMutate == entities # <<>> \/ relationships # <<>>
            mutation ==
                [memoryId |-> graphData.MemoryID, entities |-> entities,
                 relationships |-> relationships]
            historyEvent ==
                [EventID |-> UUIDs[uuidCount + 1], MemoryID |-> graphData.MemoryID,
                 EventType |-> "GRAPH_STORE_ADD", Timestamp |-> now,
                 UserID |-> graphData.UserID,
                 Details |-> CountersMap(
                     {<<"entities_count", Len(entities)>>,
                      <<"relationships_count", Len(relationships)>>})]
            calls == (IF callsOpenAI THEN {<<"ExtractGraphData", extracted>>} ELSE {})
                     \cup (IF callsMutate THEN {<<"Mutate", mutated>>} ELSE {})
        IN IF clients.dg = "nil"
           THEN /\ hret' = HandlerReturned("dgraph", i, ErrNoDgraph, {})
                /\ UNCHANGED <<busLog, mutations, uuidCount, clock>>
           ELSE IF callsMutate /\ Failed(mutated)
           THEN /\ hret' = HandlerReturned("dgraph", i, ErrMutate, calls)
                /\ UNCHANGED <<busLog, mutations, uuidCount, clock>>
           ELSE /\ mutations' = IF callsMutate THEN Append(mutations, mutation)
                                ELSE mutations
                /\ busLog' = busLog
                        \o WorkerPublish(Cfg.TopicMemoryHistoryLog,
                                         MarshalMemoryEvent(historyEvent), eventOutcome)
                /\ uuidCount' = uuidCount + 1
                /\ clock' = now
                /\ hret' = HandlerReturned("dgraph", i, ReturnAfterEvent(eventOutcome),
                                        calls)
    /\ UNCHANGED <<dbVars, nc, ret, addCalls, wiringVars, opsVars, vectors>>

\* The handler of worker w applied to the message at index i of the bus log.
Handle(w, i) ==
    \/ w = "processing" /\ HandleProcessMessage(i)
    \/ w = "embedding" /\ HandleEmbedMessage(i)
    \/ w = "qdrant" /\ HandleVectorStoreAddMessage(i)
    \/ w = "dgraph" /\ HandleGraphStoreAddMessage(i)

\* The topic on which the payloads that worker w's handler decodes are published:
\* AddMemoryRequest by Add, ProcessedMemoryData by the processing stage,
\* EmbeddingData and GraphStoreStorageData by the embedding stage.
PayloadTopic(w) ==
    IF w = "processing" THEN Cfg.TopicMemoryAddReceived
    ELSE IF w = "embedding" THEN Cfg.TopicMemoryEmbed
    ELSE IF w = "qdrant" THEN Cfg.TopicMemoryVectorStoreAdd
    ELSE Cfg.TopicMemoryGraphStoreAdd

\* The messages a handler of worker w can be called with: those of its payload
\* type that the bus accepted.
Inputs(w) ==
    {i \in DOMAIN busLog : busLog[i].topic = PayloadTopic(w) /\ busLog[i].err = "nil"}

ProcessingStage ==
    /\ handled["processing"] < MaxHandled
    /\ \E i \in Inputs("processing") : HandleProcessMessage(i) /\ UNCHANGED delivered

EmbeddingStage ==
    /\ handled["embedding"] < MaxHandled
    /\ \E i \in Inputs("embedding") : HandleEmbedMessage(i) /\ UNCHANGED delivered

VectorStoreStage ==
    /\ handled["qdrant"] < MaxHandled
    /\ \E i \in Inputs("qdrant") : HandleVectorStoreAddMessage(i) /\ UNCHANGED delivered

GraphStoreStage ==
    /\ handled["dgraph"] < MaxHandled
    /\ \E i \in Inputs("dgraph") : HandleGraphStoreAddMessage(i) /\ UNCHANGED delivered

\* The state after the service and the four stage workers have been built on one
\* bus client, for each setting of the two switches, with or without an OpenAI
\* client.
PipelineInit ==
    /\ db = "open"
    /\ tableExists = TRUE
    /\ table = <<>>
    /\ muWriter = 0
    /\ muReaders = {}
    /\ pc = [p \in Procs |-> "idle"]
    /\ last = NoCall
    /\ logged = <<>>
    /\ clock = 1
    /\ uuidCount = 0
    /\ logCalls = 0
    /\ nc = "client"
    /\ busLog = <<>>
    /\ ret = NoAdd
    /\ addCalls = 0
    /\ cfg \in [EnableGraphStore : BOOLEAN, EnableInfer : BOOLEAN]
    /\ clients \in [openai : {"nil", "client"}, vs : {"client"}, dg : {"client"}]
    /\ wstate = [w \in AllWorkers |-> "new"]
    /\ ctxDone = FALSE
    /\ subs = {}
    /\ delivered = 0
    /\ handled = [w \in Workers |-> 0]
    /\ hret = NoHandlerCall
    /\ vectors = <<>>
    /\ mutations = <<>>
    /\ OpsInit

\* The caller of the service, as the example program is one: it hands requests to
\* Add, MaxSubmitted of them at most.
Submit == addCalls < MaxSubmitted /\ Add

HandlersNext ==
    \/ Submit
    \/ ProcessingStage
    \/ EmbeddingStage
    \/ VectorStoreStage
    \/ GraphStoreStage

\* The service and the stage handlers, each handler called with the messages
\* published for it.
SpecHandlers == PipelineInit /\ [][HandlersNext]_vars

\* The topic worker w's Start names as the one it listens on.
ListenTopic(w) ==
    IF w = "processing" THEN Cfg.TopicMemoryProcess
    ELSE IF w = "embedding" THEN Cfg.TopicMemoryEmbed
    ELSE IF w = "qdrant" THEN Cfg.TopicMemoryVectorStoreAdd
    ELSE Cfg.TopicMemoryGraphStoreAdd

\* Start of worker w up to the point where it waits for its context to be
\* cancelled: it prints that it listens on its topic and starts a goroutine that
\* does nothing; it makes no call of w.nc.Subscribe.  Without a bus client, and
\* for the graph worker with graph storage disabled, it waits at once.
Start(w) ==
    /\ wstate[w] = "new"
    /\ wstate' = [wstate EXCEPT ![w] =
                    IF nc = "nil" \/ (w = "dgraph" /\ ~GraphStoreEnabled)
                    THEN "waiting" ELSE "listening"]
    /\ UNCHANGED <<storeVars, uuidCount, svcVars, cfg, clients, ctxDone, subs,
                   delivered, stageVars, opsVars>>

\* The bus deals with the next published message: it calls the handler subscribed
\* to the message's topic, and drops a message whose topic has no subscriber.
Deliver ==
    /\ delivered < Len(busLog)
    /\ delivered' = delivered + 1
    /\ LET i == delivered + 1
           to == {w \in Workers : <<busLog[i].topic, w>> \in subs}
       IN IF busLog[i].err = "nil" /\ to # {}
          THEN \E w \in to : handled[w] < MaxHandled /\ Handle(w, i)
          ELSE UNCHANGED <<storeVars, uuidCount, svcVars, wiringVars, stageVars, opsVars>>

PipelineNext ==
    \/ Submit
    \/ \E w \in Workers : Start(w)
    \/ Deliver

\* The service, the workers as their Start runs them, and the bus.
SpecPipeline == PipelineInit /\ [][PipelineNext]_vars

\* The same, with a bus that deals with every message and workers that get started.
SpecPipelineFair ==
    /\ SpecPipeline
    /\ WF_vars(Deliver)
    /\ \A w \in Workers : WF_vars(Start(w))

\* ----------------------------------------------------- memory service claims

\* A request as the claims describe a valid one: at least one message, every
\* message with a role in {user, assistant, system} and non-empty content.
PassesValidation(r) ==
    /\ ~r.Messages.isNil
    /\ r.Messages.items # <<>>
    /\ \A i \in DOMAIN r.Messages.items :
          /\ r.Messages.items[i].Role \in {"user", "assistant", "system"}
          /\ r.Messages.items[i].Content # ""

\* The step is an Add call that returns.
AddReturns == addCalls' = addCalls + 1 /\ ret'.op = "Add"

\* The Publish calls the step makes on the bus client.
PublishedInStep == SubSeq(busLog', Len(busLog) + 1, Len(busLog'))

\* The step makes a publish that the bus rejects.
BusRejects == \E i \in DOMAIN PublishedInStep : PublishedInStep[i].err # "nil"

\* C1: for every AddMemoryRequest that passes validation, Add (its publish not
\* rejected by the bus) returns a non-empty identifier with no error and publishes
\* exactly one message, on the configured add-received topic, whose decoded payload
\* equals the accepted request.
C1_AddPublishesAcceptedRequest ==
    [][AddReturns /\ PassesValidation(ret'.req) /\ ~BusRejects
        => /\ ret'.id # ""
           /\ ret'.err = "nil"
           /\ Len(PublishedInStep) = 1
           /\ PublishedInStep[1].topic = Cfg.TopicMemoryAddReceived
           /\ UnmarshalRequest(PublishedInStep[1].data) = ret'.req]_vars

\* C2: for every AddMemoryRequest with an empty or missing message sequence, or with
\* a message of empty content or of a role outside {user, assistant, system}, Add
\* returns an error and an empty identifier and performs no publish on any topic.
C2_InvalidRequestRejected ==
    [][AddReturns /\ ~PassesValidation(ret'.req)
        => /\ ret'.err # "nil"
           /\ ret'.id = ""
           /\ busLog' = busLog]_vars

\* C2's case: an Add call has returned for a request whose second message has empty
\* content, and nothing was published.
C2_Witness ==
    /\ ret.op = "Add"
    /\ ret.err = ErrInvalidRequest
    /\ Len(ret.req.Messages.items) = 2
    /\ ret.req.Messages.items[2].Content = ""
    /\ busLog = <<>>

\* C3: when the bus rejects the publish of a valid Add request, Add returns an error
\* wrapping the transport error and an empty identifier, and makes exactly one
\* publish attempt.
C3_PublishFailureSurfaced ==
    [][AddReturns /\ PassesValidation(ret'.req) /\ BusRejects
        => /\ ret'.err = ErrPublish
           /\ ret'.cause = ErrTransport
           /\ ret'.id = ""
           /\ Len(PublishedInStep) = 1]_vars

\* C3's case: an Add call of a valid request has returned the error of a publish
\* that the bus rejected.
C3_Witness ==
    /\ ret.op = "Add"
    /\ PassesValidation(ret.req)
    /\ ret.err = ErrPublish
    /\ busLog # <<>>
    /\ busLog[Len(busLog)].err = ErrTransport

\* ------------------------------------------------------ history store claims

\* Goroutine p returns from the operation whose critical section is at pc value cs.
Returns(p, cs) == pc[p] = cs /\ pc'[p] = "idle"

\* Two events are the same up to the JSON encoding of their details.
SameEvent(a, b) ==
    [a EXCEPT !.Details = MarshalMap(a.Details)] = [b EXCEPT !.Details = MarshalMap(b.Details)]

\* The sequence evs holds exactly the events of lg with memory_id m, once each, in
\* ascending timestamp order.
IsHistoryOf(evs, lg, m) ==
    /\ Len(evs) = Cardinality({i \in 1..Len(lg) : lg[i].MemoryID = m})
    /\ \A i \in 1..Len(lg) :
          lg[i].MemoryID = m => \E k \in 1..Len(evs) : SameEvent(evs[k], lg[i])
    /\ \A k \in 1..Len(evs) : \E i \in 1..Len(lg) :
          lg[i].MemoryID = m /\ SameEvent(evs[k], lg[i])
    /\ \A k, l \in 1..Len(evs) : k < l => evs[k].Timestamp <= evs[l].Timestamp

\* C4 as stated: every GetHistory(M) on the open store returns, without error,
\* exactly the events logged with memory_id = M in ascending timestamp order (the
\* empty sequence when there are none), whatever M is.
C4_GetHistoryAnyMemoryID ==
    [][\A p \in Procs :
          (Returns(p, "GetHistory:cs") /\ tableExists)
              => /\ last'.err = "nil"
                 /\ IsHistoryOf(last'.events, logged, last'.memoryID)]_vars

\* C4 amended: every GetHistory(M) on the open store with a non-empty M returns,
\* without error, exactly the events logged with memory_id = M in ascending
\* timestamp order, whatever order they were logged in and whatever other
\* memory_ids were logged, and the empty sequence when there are none; GetHistory("")
\* returns the empty sequence without error, also when events with an empty
\* memory_id were logged.
C4_GetHistoryReturnsLogged ==
    [][\A p \in Procs :
          (Returns(p, "GetHistory:cs") /\ tableExists)
              => /\ last'.err = "nil"
                 /\ last'.memoryID # ""
                       => IsHistoryOf(last'.events, logged, last'.memoryID)
                 /\ last'.memoryID = "" => last'.events = <<>>]_vars

\* C4's case: two events of one memory_id were logged later-timestamp first, and
\* GetHistory has returned them earlier-timestamp first.
C4_Witness ==
    /\ last.op = "GetHistory"
    /\ last.err = "nil"
    /\ Len(last.events) = 2
    /\ Len(logged) = 2
    /\ logged[1].Timestamp > logged[2].Timestamp
    /\ last.events[1].EventID = logged[2].EventID
    /\ last.events[2].EventID = logged[1].EventID

\* C5: a goroutine inside Reset that holds the store lock can always take its next
\* step, so Reset runs to its return and releases the lock.
C5_ResetRunsToCompletion ==
    \A p \in Procs :
        (pc[p] \in {"Reset:cs", "Reset:create:Lock", "Reset:create:cs"} /\ muWriter = p)
            => ENABLED StoreStep(p)

\* C6: Reset leaves a store that can be used: the history table it drops is
\* re-created (empty), so that GetHistory returns the empty sequence and a
\* following LogEvent succeeds.
C6_ResetLeavesUsableStore ==
    (Constructed /\ ~tableExists) ~> (tableExists /\ table = <<>> /\ muWriter = 0)

\* No step but Reset's DROP TABLE removes or changes a row of the history table.
RowsKept ==
    \/ \E p \in Procs : pc[p] = "Reset:cs" /\ pc'[p] # pc[p]
    \/ /\ Len(table') >= Len(table)
       /\ \A i \in 1..Len(table) : table'[i] = table[i]

\* GetHistory(m), when it returns, returns every logged event of memory_id m that
\* satisfies the condition inScope.
ReturnsLogged(inScope(_)) ==
    \A p \in Procs :
        (Returns(p, "GetHistory:cs") /\ tableExists)
            => \A i \in 1..Len(logged) :
                  (logged[i].MemoryID = last'.memoryID /\ inScope(logged[i]))
                      => \E k \in 1..Len(last'.events) :
                            SameEvent(last'.events[k], logged[i])

AnyEvent(e) == TRUE

HasMemoryID(e) == e.MemoryID # ""

\* C7 as stated: until a Reset, no call changes or removes a logged event, and
\* every GetHistory(e.memory_id) returns each logged event e.
C7_AppendOnlyAnyEvent == [][RowsKept /\ ReturnsLogged(AnyEvent)]_vars

\* C7 amended: until a Reset, no call (a LogEvent that reuses an event_id included)
\* changes or removes the stored row of a logged event e, and every
\* GetHistory(e.memory_id) returns e when e's memory_id is not empty; an event
\* logged with an empty memory_id stays stored but GetHistory("") does not return it.
C7_AppendOnly ==
    [][/\ RowsKept
       /\ ReturnsLogged(HasMemoryID)
       /\ \A p \in Procs :
             (Returns(p, "GetHistory:cs") /\ last'.memoryID = "") => last'.events = <<>>]_vars

\* C7's case: a LogEvent that reused a stored event's event_id with other field
\* values has returned, and the stored row is as it was.
C7_Witness ==
    /\ last.op = "LogEvent"
    /\ last.err = ErrInsert
    /\ \E i \in 1..Len(table) :
          /\ table[i].event_id = last.evOut.EventID
          /\ table[i] # RowOf(last.evOut)
          /\ table[i] = RowOf(logged[i])

\* C8: on a closed store LogEvent returns the error ErrClosed, leaves the passed
\* event as it was and stores nothing; a closed store stays closed.
C8_LogEventOnClosedStore ==
    [][/\ \A p \in Procs :
             (Returns(p, "LogEvent:cs") /\ db = "nil")
                 => /\ last'.op = "LogEvent"
                    /\ last'.err = ErrClosed
                    /\ last'.evOut = last'.evIn
                    /\ table' = table
                    /\ tableExists' = tableExists
       /\ \A p \in Procs : (pc[p] = "LogEvent:cs" /\ db = "nil") => pc'[p] # "panic"
       /\ db = "nil" => db' = "nil"]_vars

\* C8's case: LogEvent has returned on a closed store that holds events, for an
\* event without event_id and timestamp.
C8_Witness ==
    /\ db = "nil"
    /\ last.op = "LogEvent"
    /\ last.wasClosed
    /\ last.evIn.EventID = ""
    /\ last.evIn.Timestamp = 0
    /\ Len(table) > 0

\* C9: every Close returns nil and leaves the store closed: the first one on an
\* open store, and every further one, which changes nothing.
C9_CloseIdempotent ==
    [][\A p \in Procs :
          pc[p] = "Close:cs"
              => \/ pc'[p] = pc[p]
                 \/ /\ pc'[p] = "idle"
                    /\ last'.op = "Close"
                    /\ last'.err = "nil"
                    /\ db' = "nil"
                    /\ db = "nil" => (table' = table /\ tableExists' = tableExists)]_vars

\* C9's case: a Close on an already closed store has returned.
C9_Witness == last.op = "Close" /\ last.wasClosed /\ db = "nil"

\* C10: no store operation ends in a panic.
C10_NoPanic == \A p \in Procs : pc[p] # "panic"

\* Goroutine p is inside the critical section of an operation that takes the lock
\* for writing; a goroutine in Reset that calls _createHistoryTable is still inside
\* Reset's.
Writing(p) ==
    pc[p] \in {"New:create:cs", "LogEvent:cs", "Reset:cs", "Reset:create:Lock",
               "Reset:create:cs", "Close:cs"}

\* Goroutine p is inside GetHistory's critical section.
Reading(p) == pc[p] = "GetHistory:cs"

\* C11: LogEvent, Reset, Close and table creation are never inside their critical
\* section while another store operation is inside its own, and no LogEvent or
\* GetHistory is inside its critical section while the history table is dropped.
C11_MutualExclusion ==
    /\ \A p, q \in Procs : (p # q /\ Writing(p)) => (~Writing(q) /\ ~Reading(q))
    /\ \A p \in Procs : (Reading(p) \/ pc[p] = "LogEvent:cs") => tableExists

\* C11's case: two GetHistory calls are inside their critical sections at once.
C11_Witness == \E p, q \in Procs : p # q /\ Reading(p) /\ Reading(q)

\* C12: a LogEvent that returns on an open store has given the event a fresh uuid
\* when its event_id was empty and the current time when its timestamp was zero,
\* has kept a caller's event_id and a caller's non-zero timestamp, and, when it
\* returns nil, has appended one row that carries exactly those two values.
C12_LogEventDefaults ==
    [][\A p \in Procs :
          (Returns(p, "LogEvent:cs") /\ db # "nil")
              => /\ last'.op = "LogEvent"
                 /\ last'.evIn.EventID # "" => last'.evOut.EventID = last'.evIn.EventID
                 /\ last'.evIn.EventID = ""
                       => /\ last'.evOut.EventID # ""
                          /\ uuidCount' = uuidCount + 1
                          /\ last'.evOut.EventID = UUIDs[uuidCount']
                          /\ \A i \in 1..uuidCount : UUIDs[i] # last'.evOut.EventID
                          /\ \A i \in 1..Len(table) :
                                table[i].event_id # last'.evOut.EventID
                 /\ last'.evIn.Timestamp # 0
                       => last'.evOut.Timestamp = last'.evIn.Timestamp
                 /\ last'.evIn.Timestamp = 0
                       => (last'.evOut.Timestamp = clock' /\ clock' >= clock)
                 /\ last'.err = "nil"
                       => /\ Len(table') = Len(table) + 1
                          /\ table'[Len(table')].event_id = last'.evOut.EventID
                          /\ table'[Len(table')].timestamp = last'.evOut.Timestamp
                          /\ table'[Len(table')] = RowOf(last'.evOut)]_vars

\* C12's case: a LogEvent of an event with a caller's event_id and no timestamp has
\* returned nil, and the stored row has the caller's event_id and the time of the
\* call.
C12_Witness ==
    /\ last.op = "LogEvent"
    /\ last.err = "nil"
    /\ last.evIn.EventID = "e1"
    /\ last.evIn.Timestamp = 0
    /\ table # <<>>
    /\ table[Len(table)].event_id = "e1"
    /\ table[Len(table)].timestamp = clock

\* ------------------------------------------------------------ pipeline claims

\* The messages of the bus log that are MemoryEvents of type t: those published on
\* the history topic whose event_type is t.
EventsOfType(log, t) ==
    {i \in DOMAIN log :
        log[i].topic = Cfg.TopicMemoryHistoryLog /\ log[i].data.event_type = t}

\* Add returned an identifier: the request has been accepted.
Accepted == ret.op = "Add" /\ ret.err = "nil"

\* Start has run in every worker.
AllStarted == \A w \in Workers : wstate[w] # "new"

\* The bus took every message it was given and no backend call of a handler failed.
EnvironmentWorks ==
    /\ \A i \in DOMAIN busLog : busLog[i].err = "nil"
    /\ hret.err = "nil"
    /\ \A c \in hret.calls : c[2] # ErrBackend

\* C13: with every worker started, a bus that takes and delivers every message and
\* backends that succeed, an accepted request leads to a VECTOR_STORE_ADD event
\* being published.
C13_AcceptedRequestReachesVectorStore ==
    []EnvironmentWorks =>
        ((Accepted /\ AllStarted) ~> (EventsOfType(busLog, "VECTOR_STORE_ADD") # {}))

\* The handler of worker w returns in this step; hret' is what it returned.
HandlerReturns(w) == handled'[w] = handled[w] + 1

\* The topics of the stage after worker w's: none after the two storage stages.
NextStageTopics(w) ==
    IF w = "processing" THEN {Cfg.TopicMemoryEmbed}
    ELSE IF w = "embedding"
    THEN {Cfg.TopicMemoryVectorStoreAdd}
         \cup (IF cfg.EnableGraphStore THEN {Cfg.TopicMemoryGraphStoreAdd} ELSE {})
    ELSE {}

\* The memory id of the message worker w's handler deals with in this step: the
\* one it mints for the processing stage, the one of its input for the others.
StageMemoryID(w) ==
    IF w = "processing" THEN UUIDs[uuidCount + 1]
    ELSE busLog[hret'.msg].data.memory_id

\* The MemoryEvents published in this step.
EventsInStep ==
    {i \in DOMAIN PublishedInStep : PublishedInStep[i].topic = Cfg.TopicMemoryHistoryLog}

\* The bus client exists and took everything published in this step.
BusWorks == nc # "nil" /\ ~BusRejects

\* Worker w's handler has published its next-stage messages and exactly one
\* MemoryEvent, which carries the memory id.
PublishedStageOutput(w) ==
    /\ \A t \in NextStageTopics(w) :
          \E i \in DOMAIN PublishedInStep :
              /\ PublishedInStep[i].topic = t
              /\ PublishedInStep[i].data.memory_id = StageMemoryID(w)
    /\ Cardinality(EventsInStep) = 1
    /\ \A i \in EventsInStep :
          /\ PublishedInStep[i].data.memory_id.present
          /\ PublishedInStep[i].data.memory_id.value = StageMemoryID(w)

\* C14: every stage handler that returns success with a working bus has published
\* its next-stage message, where there is a next stage, and exactly one MemoryEvent
\* on the history topic that carries the memory id.
C14_SuccessPublishesNextStageAndEvent ==
    [][\A w \in Workers :
          (HandlerReturns(w) /\ hret'.err = "nil" /\ BusWorks)
              => PublishedStageOutput(w)]_vars

\* The bus took, before index k of the log, a message on topic t for memory id m.
PublishedBefore(k, t, m) ==
    \E i \in 1..(k - 1) :
        /\ busLog[i].topic = t
        /\ busLog[i].err = "nil"
        /\ busLog[i].data.memory_id = m

\* The memory id of the MemoryEvent at index k of the bus log, "" when it has none.
EventMemoryID(k) ==
    IF busLog[k].data.memory_id.present THEN busLog[k].data.memory_id.value ELSE ""

\* C15: the stages of a memory id occur in order.  A storage message is published
\* only after the ProcessedMemoryData of its memory id; a vector is inserted, a
\* graph mutated and a VECTOR_STORE_ADD or GRAPH_STORE_ADD event published only
\* after the embedding stage's storage message for that memory id; an embedding is
\* requested only for a published ProcessedMemoryData.
C15_StagesInOrder ==
    /\ \A k \in DOMAIN busLog :
          busLog[k].topic \in {Cfg.TopicMemoryVectorStoreAdd, Cfg.TopicMemoryGraphStoreAdd}
              => PublishedBefore(k, Cfg.TopicMemoryEmbed, busLog[k].data.memory_id)
    /\ \A k \in EventsOfType(busLog, "VECTOR_STORE_ADD") :
          PublishedBefore(k, Cfg.TopicMemoryVectorStoreAdd, EventMemoryID(k))
    /\ \A k \in EventsOfType(busLog, "GRAPH_STORE_ADD") :
          PublishedBefore(k, Cfg.TopicMemoryGraphStoreAdd, EventMemoryID(k))
    /\ \A v \in DOMAIN vectors :
          PublishedBefore(Len(busLog) + 1, Cfg.TopicMemoryVectorStoreAdd, vectors[v].ID)
    /\ \A g \in DOMAIN mutations :
          PublishedBefore(Len(busLog) + 1, Cfg.TopicMemoryGraphStoreAdd,
                          mutations[g].memoryId)
    /\ hret.worker = "embedding" =>
          /\ busLog[hret.msg].topic = Cfg.TopicMemoryEmbed
          /\ busLog[hret.msg].err = "nil"
          /\ busLog[hret.msg].data.memory_id \in {UUIDs[n] : n \in 1..uuidCount}

\* A request has gone through all four stages: its vector is stored, its graph
\* mutated and both storage events are published.
C15_Witness ==
    /\ vectors # <<>>
    /\ mutations # <<>>
    /\ EventsOfType(busLog, "VECTOR_STORE_ADD") # {}
    /\ EventsOfType(busLog, "GRAPH_STORE_ADD") # {}

\* The bus rejected a MemoryEvent published in this step.
EventPublishFails == \E i \in EventsInStep : PublishedInStep[i].err # "nil"

\* Nothing published before this step has been taken back.
BusLogKept == Len(busLog') >= Len(busLog) /\ SubSeq(busLog', 1, Len(busLog)) = busLog

\* The primary side effect of worker w's stage is in place after this step: the
\* ProcessedMemoryData has been published, the vector inserted under the memory id,
\* the graph mutated when the handler called Mutate.
PrimaryEffectInPlace(w) ==
    IF w = "processing"
    THEN \E i \in DOMAIN PublishedInStep :
            /\ PublishedInStep[i].topic = Cfg.TopicMemoryEmbed
            /\ PublishedInStep[i].data.memory_id = StageMemoryID(w)
    ELSE IF w = "qdrant"
    THEN /\ Len(vectors') = Len(vectors) + 1
         /\ SubSeq(vectors', 1, Len(vectors)) = vectors
         /\ vectors'[Len(vectors')].ID = StageMemoryID(w)
    ELSE IF \E c \in hret'.calls : c[1] = "Mutate"
    THEN /\ Len(mutations') = Len(mutations) + 1
         /\ SubSeq(mutations', 1, Len(mutations)) = mutations
         /\ mutations'[Len(mutations')].memoryId = StageMemoryID(w)
    ELSE mutations' = mutations

\* C16: in the processing, vector-store and graph-store stages a failure to
\* publish the stage's MemoryEvent does not change the outcome: the handler returns
\* success and the stage's primary side effect stays in place.
C16_EventFailureKeepsOutcome ==
    [][\A w \in {"processing", "qdrant", "dgraph"} :
          (HandlerReturns(w) /\ EventPublishFails)
              => /\ hret'.err = "nil"
                 /\ BusLogKept
                 /\ PrimaryEffectInPlace(w)]_vars

\* The bus has rejected the event of each of the three stages, the vector is
\* stored and the graph mutated.
C16_Witness ==
    /\ \A t \in {"MEMORY_PROCESSED", "VECTOR_STORE_ADD", "GRAPH_STORE_ADD"} :
          \E k \in EventsOfType(busLog, t) : busLog[k].err # "nil"
    /\ vectors # <<>>
    /\ mutations # <<>>
    /\ hret.err = "nil"

\* The handler of worker w made the backend call named op in this step and the
\* call failed.
BackendCallFails(w, op) == HandlerReturns(w) /\ <<op, ErrBackend>> \in hret'.calls

\* C17: the failure of an essential step aborts its stage and is reported.  When
\* GetEmbedding fails the embedding handler returns an error and publishes
\* nothing; when InsertVectors fails the vector-store handler returns an error,
\* stores no vector and publishes no event; when Mutate fails the graph handler
\* returns an error, keeps the graph as it was and publishes no event.  In each case
\* everything published before stays published.
C17_EssentialFailureAborts ==
    [][/\ BackendCallFails("embedding", "GetEmbedding")
            => hret'.err = ErrEmbedding /\ busLog' = busLog
       /\ BackendCallFails("qdrant", "InsertVectors")
            => hret'.err = ErrInsertVectors /\ busLog' = busLog /\ vectors' = vectors
       /\ BackendCallFails("dgraph", "Mutate")
            => hret'.err = ErrMutate /\ busLog' = busLog /\ mutations' = mutations
      ]_vars

\* The vector insert of a request has failed after the processing and embedding
\* stages published their messages, which are still in the bus log.
C17_Witness ==
    /\ hret.worker = "qdrant"
    /\ hret.err = ErrInsertVectors
    /\ <<"InsertVectors", ErrBackend>> \in hret.calls
    /\ EventsOfType(busLog, "MEMORY_PROCESSED") # {}
    /\ \E k \in DOMAIN busLog : busLog[k].topic = Cfg.TopicMemoryVectorStoreAdd
    /\ EventsOfType(busLog, "VECTOR_STORE_ADD") = {}
    /\ vectors = <<>>

\* C18: the failure of an enrichment call does not abort its stage.  When
\* ExtractFacts fails the processing handler returns success having published the
\* ProcessedMemoryData, without extracted facts, and the MEMORY_PROCESSED event;
\* when ExtractGraphData fails the graph-store handler returns success.
C18_EnrichmentFailureDegrades ==
    [][/\ BackendCallFails("processing", "ExtractFacts")
            => /\ hret'.err = "nil"
               /\ \E i \in DOMAIN PublishedInStep :
                     /\ PublishedInStep[i].topic = Cfg.TopicMemoryEmbed
                     /\ PublishedInStep[i].data.memory_id = StageMemoryID("processing")
                     /\ ~PublishedInStep[i].data.extracted_facts.present
               /\ \E i \in EventsInStep :
                     /\ PublishedInStep[i].data.event_type = "MEMORY_PROCESSED"
                     /\ PublishedInStep[i].data.memory_id.value
                            = StageMemoryID("processing")
       /\ BackendCallFails("dgraph", "ExtractGraphData") => hret'.err = "nil"
      ]_vars

\* Both enrichment calls of a request have failed: its ProcessedMemoryData was
\* published without facts and the graph-store handler has returned success.
C18_Witness ==
    /\ hret.worker = "dgraph"
    /\ hret.err = "nil"
    /\ <<"ExtractGraphData", ErrBackend>> \in hret.calls
    /\ \E k \in DOMAIN busLog :
          /\ busLog[k].topic = Cfg.TopicMemoryEmbed
          /\ ~busLog[k].data.extracted_facts.present
    /\ cfg.EnableInfer
    /\ clients.openai # "nil"
    /\ EventsOfType(busLog, "GRAPH_STORE_ADD") # {}

\* The messages published in this step on topic t.
PublishedOn(t) == {i \in DOMAIN PublishedInStep : PublishedInStep[i].topic = t}

\* C19: the graph-store stage is entered only when the configuration enables it.
\* An embedding handler that returns success has published on the vector-store
\* topic; with EnableGraphStore false it has published nothing on the graph-store
\* topic, with EnableGraphStore true exactly one message there, which carries the
\* memory id and the processed text of its input.  Nothing else publishes on the
\* graph-store topic.
C19_GraphStoreOnlyWhenEnabled ==
    [][/\ (HandlerReturns("embedding") /\ hret'.err = "nil")
            => LET input == busLog[hret'.msg].data
                   graph == PublishedOn(Cfg.TopicMemoryGraphStoreAdd)
               IN /\ Cardinality(PublishedOn(Cfg.TopicMemoryVectorStoreAdd)) = 1
                  /\ Cardinality(graph) = IF cfg.EnableGraphStore THEN 1 ELSE 0
                  /\ \A i \in graph :
                        /\ PublishedInStep[i].data.memory_id = input.memory_id
                        /\ PublishedInStep[i].data.text_for_graph = input.processed_text
       /\ PublishedOn(Cfg.TopicMemoryGraphStoreAdd) # {}
            => HandlerReturns("embedding") /\ cfg.EnableGraphStore
      ]_vars

\* The embedding handler has returned success with graph storage disabled: the
\* vector-store message is published and the graph-store topic is empty.
C19_Witness ==
    /\ ~cfg.EnableGraphStore
    /\ hret.worker = "embedding"
    /\ hret.err = "nil"
    /\ \E k \in DOMAIN busLog : busLog[k].topic = Cfg.TopicMemoryVectorStoreAdd
    /\ \A k \in DOMAIN busLog : busLog[k].topic # Cfg.TopicMemoryGraphStoreAdd

\* The memory ids the processing stage minted: those of the ProcessedMemoryData
\* it published.
MintedByProcessing ==
    {busLog[k].data.memory_id :
        k \in {i \in DOMAIN busLog : busLog[i].topic = Cfg.TopicMemoryEmbed}}

\* The memory ids that key what the stages after Add produced: their messages,
\* their events, the stored vectors and the graph mutations.
DownstreamKeys ==
    MintedByProcessing
    \cup {busLog[k].data.memory_id :
            k \in {i \in DOMAIN busLog :
                     busLog[i].topic \in {Cfg.TopicMemoryVectorStoreAdd,
                                          Cfg.TopicMemoryGraphStoreAdd}}}
    \cup {EventMemoryID(k) :
            k \in {i \in DOMAIN busLog : busLog[i].topic = Cfg.TopicMemoryHistoryLog}}
    \cup {vectors[v].ID : v \in DOMAIN vectors}
    \cup {mutations[g].memoryId : g \in DOMAIN mutations}

NextStagePublishFails(w) ==
    /\ HandlerReturns(w)
    /\ \E i \in DOMAIN PublishedInStep :
          /\ PublishedInStep[i].topic \in NextStageTopics(w)
          /\ PublishedInStep[i].err # "nil"

\* C30: when the publish of a next-stage message fails, in the processing or the
\* embedding handler, the handler returns an error, and it has published on each
\* next-stage topic once only.
C30_NextStagePublishFailureSurfaced ==
    [][\A w \in {"processing", "embedding"} :
          NextStagePublishFails(w)
              => /\ hret'.err # "nil"
                 /\ \A t \in NextStageTopics(w) : Cardinality(PublishedOn(t)) <= 1]_vars

\* ---------------------------------------------------------- worker lifecycle

\* <-ctx.Done() in a worker's Start: the receive returns once the context is
\* cancelled, and not before.
CtxDoneIgnored == TRUE
CtxDoneReceived == ctxDone

\* The caller of Start cancels the context it gave to the workers.
Cancel ==
    /\ ~ctxDone
    /\ ctxDone' = TRUE
    /\ UNCHANGED <<storeVars, uuidCount, svcVars, cfg, clients, wstate, subs, delivered,
                   stageVars, opsVars>>

\* The rest of Start of worker w: the receive from ctx.Done() returns, the worker
\* prints that it shuts down, and Start returns nil.
Return(w) ==
    /\ wstate[w] \in {"listening", "waiting"}
    /\ CtxDoneReceived
    /\ wstate' = [wstate EXCEPT ![w] = "returned nil"]
    /\ UNCHANGED <<storeVars, uuidCount, svcVars, cfg, clients, ctxDone, subs,
                   delivered, stageVars, opsVars>>

\* The five workers built with or without a bus client, for each setting of the
\* switches, before any Start.
LifecycleInit ==
    /\ db = "open"
    /\ tableExists = TRUE
    /\ table = <<>>
    /\ muWriter = 0
    /\ muReaders = {}
    /\ pc = [p \in Procs |-> "idle"]
    /\ last = NoCall
    /\ logged = <<>>
    /\ clock = 1
    /\ uuidCount = 0
    /\ logCalls = 0
    /\ nc \in {"nil", "client"}
    /\ busLog = <<>>
    /\ ret = NoAdd
    /\ addCalls = 0
    /\ cfg \in [EnableGraphStore : BOOLEAN, EnableInfer : BOOLEAN]
    /\ clients = [openai |-> "client", vs |-> "client", dg |-> "client"]
    /\ wstate = [w \in AllWorkers |-> "new"]
    /\ ctxDone = FALSE
    /\ subs = {}
    /\ delivered = 0
    /\ handled = [w \in Workers |-> 0]
    /\ hret = NoHandlerCall
    /\ vectors = <<>>
    /\ mutations = <<>>
    /\ OpsInit

LifecycleNext ==
    \/ \E w \in AllWorkers : Start(w)
    \/ Cancel
    \/ \E w \in AllWorkers : Return(w)

\* The workers' Start calls, each on its own goroutine, and the cancellation of
\* their context, with the Go scheduler's guarantee that a goroutine whose receive
\* can return does run.
SpecLifecycleFair ==
    /\ LifecycleInit
    /\ [][LifecycleNext]_vars
    /\ \A w \in AllWorkers : WF_vars(Return(w))

\* ----------------------------------------------------------- lifecycle claims

Started(w) == wstate[w] \in {"listening", "waiting", "returned nil"}

\* C21: no worker's Start returns before its context is cancelled, and Start
\* returns nothing but nil; once the context is cancelled every Start that has been
\* called returns nil.  This holds for each of the five workers, with or without a
\* bus client, with graph storage enabled or disabled.
C21_StartReturnsNilOnCancel ==
    /\ [](\A w \in AllWorkers :
            /\ wstate[w] \in {"new", "listening", "waiting", "returned nil"}
            /\ wstate[w] = "returned nil" => ctxDone)
    /\ \A w \in AllWorkers :
          (ctxDone /\ Started(w)) ~> (wstate[w] = "returned nil")

\* Without a bus client and with graph storage disabled, the context is cancelled
\* and every Start has returned nil.
C21_Witness ==
    /\ nc = "nil"
    /\ ~cfg.EnableGraphStore
    /\ ctxDone
    /\ \A w \in AllWorkers : wstate[w] = "returned nil"

\* -------------------------------------------------- configuration operations

\* A program calls Config.Validate on a Config it has built or loaded.
ValidateConfig ==
    /\ confRet.op = "none"
    /\ \E c \in Configs :
          confRet' = [op |-> "Config.Validate", in |-> c, err |-> ConfigValidate(c),
                      out |-> NoConfCall.out]
    /\ UNCHANGED <<storeVars, uuidCount, svcVars, workerVars, reqLog, history, svcCfg>>

\* json.Unmarshal calls UnmarshalJSON on a zero GraphStoreConfig or
\* VectorStoreConfig with a payload.
UnmarshalStoreConfig ==
    /\ confRet.op = "none"
    /\ \E payload \in Payloads :
          \/ confRet' = [op |-> "GraphStoreConfig.UnmarshalJSON", in |-> payload,
                         err |-> GraphStoreConfigUnmarshalJSON(payload).err,
                         out |-> GraphStoreConfigUnmarshalJSON(payload).out]
          \/ confRet' = [op |-> "VectorStoreConfig.UnmarshalJSON", in |-> payload,
                         err |-> VectorStoreConfigUnmarshalJSON(payload).err,
                         out |-> VectorStoreConfigUnmarshalJSON(payload).out]
    /\ UNCHANGED <<storeVars, uuidCount, svcVars, workerVars, reqLog, history, svcCfg>>

\* A program calls Validate on a GraphStoreConfig or a VectorStoreConfig: one it
\* has built, or the one it has just decoded without error.
ValidateStoreConfig ==
    /\ \/ /\ confRet.op = "none"
          /\ \E c \in StoreConfigs :
                \/ confRet' = [op |-> "GraphStoreConfig.Validate", in |-> c,
                               err |-> GraphStoreConfigValidate(c), out |-> c]
                \/ confRet' = [op |-> "VectorStoreConfig.Validate", in |-> c,
                               err |-> VectorStoreConfigValidate(c), out |-> c]
       \/ /\ confRet.op = "GraphStoreConfig.UnmarshalJSON"
          /\ confRet.err = NoError
          /\ confRet' = [op |-> "GraphStoreConfig.Validate", in |-> confRet.out,
                         err |-> GraphStoreConfigValidate(confRet.out),
                         out |-> confRet.out]
       \/ /\ confRet.op = "VectorStoreConfig.UnmarshalJSON"
          /\ confRet.err = NoError
          /\ confRet' = [op |-> "VectorStoreConfig.Validate", in |-> confRet.out,
                         err |-> VectorStoreConfigValidate(confRet.out),
                         out |-> confRet.out]
    /\ UNCHANGED <<storeVars, uuidCount, svcVars, workerVars, reqLog, history, svcCfg>>

ConfigNext ==
    \/ ValidateConfig
    \/ ValidateStoreConfig
    \/ UnmarshalStoreConfig

\* A program that validates one configuration, built or decoded.
SpecConfig == ServiceInit /\ [][ConfigNext]_vars

\* ------------------------------------------------------- configuration claims

\* The twelve fields the claims name as required: nats_address, openai_api_key and
\* the ten topic fields.
TwelveRequired ==
    {"NATSAddress", "OpenAIAPIKey", "TopicMemoryAddReceived", "TopicMemoryProcess",
     "TopicMemoryEmbed", "TopicMemoryVectorStoreAdd", "TopicMemoryGraphStoreAdd",
     "TopicMemoryHistoryLog", "TopicMemorySearch", "TopicMemoryGet",
     "TopicMemoryUpdate", "TopicMemoryDelete"}

\* A nested config that is absent, or present and passing its own Validate.
NestedConfigsPass(c) ==
    /\ c.GraphConfig.isNil \/ GraphStoreConfigValidate(c.GraphConfig.elem) = NoError
    /\ c.VectorStoreConfig.isNil
       \/ VectorStoreConfigValidate(c.VectorStoreConfig.elem) = NoError

\* C26: Config.Validate returns an error naming the field whenever one of the
\* twelve required fields is empty, and returns nil when all twelve are set and
\* each nested graph or vector config is absent or passes its own validation,
\* whether graph storage is enabled or not.
C26_ConfigValidateRequiredFields ==
    confRet.op = "Config.Validate"
    => /\ \A f \in TwelveRequired :
            confRet.in[f] = ""
            => /\ confRet.err.kind = "validation"
               /\ <<"Config." \o f, "required">> \in confRet.err.fields
       /\ ((\A f \in TwelveRequired : confRet.in[f] # "") /\ NestedConfigsPass(confRet.in))
            => confRet.err = NoError

\* Config.Validate has returned nil for a Config with graph storage enabled and no
\* nested config.
C26_Witness ==
    /\ confRet.op = "Config.Validate"
    /\ confRet.in.EnableGraphStore
    /\ confRet.in.GraphConfig.isNil
    /\ confRet.in.VectorStoreConfig.isNil
    /\ confRet.err = NoError

\* The config type that belongs to a provider under a Validate or UnmarshalJSON
\* operation of GraphStoreConfig or VectorStoreConfig; "none" for a provider the
\* operation's type does not support.
ProviderType(op, provider) ==
    IF op \in {"GraphStoreConfig.Validate", "GraphStoreConfig.UnmarshalJSON"}
    THEN IF provider = "neo4j" THEN "*graphs.Neo4jConfig"
         ELSE IF provider = "memgraph" THEN "*graphs.MemgraphConfig"
         ELSE "none"
    ELSE IF provider = "qdrant" THEN "*vectorstores.QdrantConfig" ELSE "none"

ValidateReturned == confRet.op \in {"GraphStoreConfig.Validate", "VectorStoreConfig.Validate"}

\* The provider is supported, the config is of the provider's type and its
\* required fields hold.
ProviderAndConfigAgree ==
    /\ ProviderType(confRet.op, confRet.in.Provider) # "none"
    /\ confRet.in.Config.type = ProviderType(confRet.op, confRet.in.Provider)
    /\ FieldErrors("", confRet.in.Config) = {}

\* The error names the provider and the actual type of the config.
NamesProviderAndActualType ==
    /\ "provider" \in DOMAIN confRet.err
    /\ "actual" \in DOMAIN confRet.err
    /\ confRet.err.provider = confRet.in.Provider
    /\ confRet.err.actual = confRet.in.Config.type

\* The config is not of the type of the supported provider named: another
\* provider's type, nil, or a value that is no config.
TypeDisagrees ==
    /\ ProviderType(confRet.op, confRet.in.Provider) # "none"
    /\ confRet.in.Config.type # ProviderType(confRet.op, confRet.in.Provider)

\* C27 as stated: Validate succeeds only if provider and config agree, and every
\* config whose type disagrees with a supported provider is rejected with an error
\* that names the provider and the actual type.
C27_Original ==
    ValidateReturned
    => /\ confRet.err = NoError => ProviderAndConfigAgree
       /\ TypeDisagrees => NamesProviderAndActualType

\* C27: for every provider string and config value built programmatically,
\* VectorStoreConfig.Validate and GraphStoreConfig.Validate succeed exactly when the
\* provider is supported, the config is of the provider's type and its required
\* fields hold.  A config whose type disagrees with a supported provider is always
\* rejected; the error names the provider and the actual type when the field
\* validation finds nothing, that is, when the config is not a nil config of a
\* VectorStoreConfig and holds no struct with a failing field; otherwise the error
\* is the field validation's.
C27_ValidateEnforcesAgreement ==
    ValidateReturned
    => /\ confRet.err = NoError <=> ProviderAndConfigAgree
       /\ TypeDisagrees
            => IF \/ FieldErrors("", confRet.in.Config) # {}
                  \/ (confRet.op = "VectorStoreConfig.Validate"
                        /\ confRet.in.Config = NilConfig)
               THEN confRet.err.kind = "validation"
               ELSE NamesProviderAndActualType

\* GraphStoreConfig.Validate has rejected a valid MemgraphConfig under the provider
\* neo4j with an error naming both types.
C27_Witness ==
    /\ confRet.op = "GraphStoreConfig.Validate"
    /\ confRet.in.Provider = "neo4j"
    /\ confRet.in.Config.type = "*graphs.MemgraphConfig"
    /\ FieldErrors("", confRet.in.Config) = {}
    /\ confRet.err.kind = "config for provider must be of type"
    /\ confRet.err.expected = "*graphs.Neo4jConfig"
    /\ confRet.err.actual = "*graphs.MemgraphConfig"

DecodeReturned ==
    confRet.op \in {"GraphStoreConfig.UnmarshalJSON", "VectorStoreConfig.UnmarshalJSON"}

\* The payload's config object has the member called name, not empty.
HasMember(name) ==
    \E m \in confRet.in.config.members : m[1] = name /\ m[2] # ""

\* The payload decoded names a supported provider and its config is an object with
\* the provider's required members, the address one the vector store accepts.
WellShapedPayload ==
    /\ DecodeReturned
    /\ ProviderType(confRet.op, confRet.in.provider) # "none"
    /\ confRet.in.config.kind = "object"
    /\ IF confRet.op = "GraphStoreConfig.UnmarshalJSON"
       THEN HasMember("url") /\ HasMember("username") /\ HasMember("password")
       ELSE /\ HasMember("collection_name")
            /\ \E m \in confRet.in.config.members :
                  m[1] = "address" /\ m[2] \in {"http://qdrant:6333", "qdrant:6334"}

\* The config validated is a pointer to a config struct whose own fields hold, of
\* a type that is not the supported provider's.
OtherProvidersConfig ==
    /\ ValidateReturned
    /\ TypeDisagrees
    /\ confRet.in.Config.type \in {"*graphs.Neo4jConfig", "*graphs.MemgraphConfig",
                                   "*vectorstores.QdrantConfig"}
    /\ FieldErrors("", confRet.in.Config) = {}

\* C28: decoding a payload {provider, config} with a supported provider and a
\* config of the provider's shape with its required fields returns no error and
\* yields the provider with a config of the provider's concrete type, and Validate
\* on the decoded object returns nil; decoding a payload that names an unsupported
\* backend fails; an object with a supported provider whose config is another
\* provider's, valid in itself, fails Validate with a type-mismatch error naming
\* the provider and the actual type.  (The decoded object is its provider and its
\* config, so the object with the config replaced is the object built with that
\* config.)
C28_DecodeThenValidate ==
    /\ [](/\ WellShapedPayload
             => /\ confRet.err = NoError
                /\ confRet.out.Provider = confRet.in.provider
                /\ confRet.out.Config.type
                     = ProviderType(confRet.op, confRet.in.provider)
          /\ (DecodeReturned /\ confRet.in.provider # ""
                /\ ProviderType(confRet.op, confRet.in.provider) = "none")
             => confRet.err # NoError
          /\ OtherProvidersConfig
             => /\ confRet.err.kind \in {"config for provider must be of type",
                                          "config for provider is of unexpected type"}
                /\ NamesProviderAndActualType)
    /\ [][(WellShapedPayload /\ confRet' # confRet)
            => /\ confRet'.in = confRet.out
               /\ confRet'.err = NoError]_vars

\* The example's neo4j payload has been decoded into the example's graph config.
C28_Witness ==
    /\ WellShapedPayload
    /\ confRet.op = "GraphStoreConfig.UnmarshalJSON"
    /\ confRet.err = NoError
    /\ confRet.out = ExampleConfig.GraphConfig.elem

\* C29: for both VectorStoreConfig and GraphStoreConfig, decoding a payload with a
\* supported provider and no config member fails with the error "config field is
\* missing for provider X", and leaves no config in the object.
C29_MissingConfigRejected ==
    (/\ DecodeReturned
     /\ ProviderType(confRet.op, confRet.in.provider) # "none"
     /\ confRet.in.config.kind = "absent")
    => /\ confRet.err.kind = "config field is missing for provider"
       /\ confRet.err.provider = confRet.in.provider
       /\ confRet.out.Config = NilConfig

\* ------------------------------------------------- memory service operations

\* timeout := 5 * time.Second in Search and Get, in seconds.
RequestTimeout == 5

\* The BaseRequestInfo values callers pass: a user, no user but metadata, and
\* metadata that json.Marshal rejects.
BaseInfos ==
    {[UserID |-> "u1", Metadata |-> NilMap], [UserID |-> "", Metadata |-> StrMap],
     [UserID |-> "u1", Metadata |-> ChanMap]}

\* What Search and Get return after a reply has arrived, having discarded it.
ReplyDiscarded == "nil"
ReplyError == "not fully implemented (response handling pending)"

\* The topic Update and Delete publish on: the configured one, or the placeholder
\* when the configuration has none.
TopicAsConfigured(topic, placeholder) == topic
TopicOrPlaceholder(topic, placeholder) == IF topic # "" THEN topic ELSE placeholder

\* s.history == nil in the service's GetHistory.
HistoryAssumed == TRUE
HistoryConfigured == history # "nil"

\* json.Marshal of GetRequestData: the BaseRequestInfo fields are omitempty,
\* memory_id is not.
MarshalGetRequestData(memoryID, baseInfo) ==
    [user_id |-> OmitEmpty(baseInfo.UserID = "", JSONString(baseInfo.UserID), ""),
     metadata |-> OmitEmpty(baseInfo.Metadata.entries = {}, MarshalMap(baseInfo.Metadata),
                            MarshalMap(NilMap)),
     memory_id |-> JSONString(memoryID)]

\* s.nc.Request(ctx, topic, jsonData, timeout): the call on the bus client with
\* what it returns, a reply of either kind or an error, "nats: timeout" when no
\* reply came in time.
Request(topic, data, outcome) ==
    <<[topic |-> topic, data |-> data, timeout |-> RequestTimeout,
       err |-> IF outcome \in {"results", "malformed"} THEN "nil" ELSE outcome,
       reply |-> IF outcome \in {"results", "malformed"} THEN outcome ELSE "none"]>>

\* A returned call of Search, Get, Update, Delete or GetHistory: the operation, its
\* arguments, the error and the results returned, and the calls made on the
\* history store with what they returned.
OpReturned(op, in, err, results, storeCalls) ==
    [op |-> op, in |-> in, err |-> err, results |-> results, storeCalls |-> storeCalls]

\* Search: validate (query required, limit 0 or positive), marshal, send one
\* request when there is a bus client, and return an error in every case.
Search ==
    /\ Len(busLog) + Len(reqLog) < MaxServiceMessages
    /\ \E req \in {r \in [UserID : UserIDs, Metadata : {NilMap, StrMap, ChanMap},
                          Query : {"", "q"}, Limit : {-1, 0, 10}] :
                      Cardinality({f \in {"UserID", "Metadata", "Query", "Limit"} :
                                     r[f] # [UserID |-> "u1", Metadata |-> NilMap,
                                             Query |-> "q", Limit |-> 10][f]}) <= 1},
          outcome \in {"results", "malformed", ErrTransport, "nats: timeout"} :
        IF req.Query = "" \/ req.Limit < 0
        THEN /\ ret' = OpReturned("Search", req, "invalid SearchMemoryRequest", <<>>, <<>>)
             /\ UNCHANGED reqLog
        ELSE IF MarshalMapFails(req.Metadata)
        THEN /\ ret' = OpReturned("Search", req, "failed to marshal SearchMemoryRequest",
                                  <<>>, <<>>)
             /\ UNCHANGED reqLog
        ELSE IF nc # "nil"
        THEN /\ reqLog' = reqLog \o
                    Request(svcCfg.TopicMemorySearch,
                            [user_id |-> OmitEmpty(req.UserID = "", JSONString(req.UserID), ""),
                             metadata |-> OmitEmpty(req.Metadata.entries = {},
                                                    MarshalMap(req.Metadata),
                                                    MarshalMap(NilMap)),
                             query |-> JSONString(req.Query), limit |-> req.Limit],
                            outcome)
             /\ ret' = OpReturned("Search", req,
                                  IF outcome \in {ErrTransport, "nats: timeout"}
                                  THEN "NATS request failed" ELSE ReplyError,
                                  <<>>, <<>>)
        ELSE /\ ret' = OpReturned("Search", req,
                                  "not fully implemented (NATS client is nil)", <<>>, <<>>)
             /\ UNCHANGED reqLog
    /\ UNCHANGED <<storeVars, uuidCount, nc, busLog, addCalls, workerVars, history,
                   svcCfg, confRet>>

\* Get: the same for a memory_id, which must not be empty.
Get ==
    /\ Len(busLog) + Len(reqLog) < MaxServiceMessages
    /\ \E memoryID \in MemoryIDs,
          baseInfo \in BaseInfos,
          outcome \in {"results", "malformed", ErrTransport, "nats: timeout"} :
        LET in == [memoryID |-> memoryID, baseInfo |-> baseInfo]
        IN IF memoryID = ""
           THEN /\ ret' = OpReturned("Get", in, "memoryID cannot be empty", <<>>, <<>>)
                /\ UNCHANGED reqLog
           ELSE IF MarshalMapFails(baseInfo.Metadata)
           THEN /\ ret' = OpReturned("Get", in, "failed to marshal Get request", <<>>, <<>>)
                /\ UNCHANGED reqLog
           ELSE IF nc # "nil"
           THEN /\ reqLog' = reqLog \o
                       Request(svcCfg.TopicMemoryGet,
                               MarshalGetRequestData(memoryID, baseInfo), outcome)
                /\ ret' = OpReturned("Get", in,
                                     IF outcome \in {ErrTransport, "nats: timeout"}
                                     THEN "NATS request failed" ELSE ReplyError,
                                     <<>>, <<>>)
           ELSE /\ ret' = OpReturned("Get", in,
                                     "not fully implemented (NATS client is nil)",
                                     <<>>, <<>>)
                /\ UNCHANGED reqLog
    /\ UNCHANGED <<storeVars, uuidCount, nc, busLog, addCalls, workerVars, history,
                   svcCfg, confRet>>

\* Update: marshal the memory_id, the data and the caller's fields, and publish
\* them when there is a bus client; without one, return an error.
Update ==
    /\ Len(busLog) + Len(reqLog) < MaxServiceMessages
    /\ \E memoryID \in MemoryIDs,
          baseInfo \in BaseInfos,
          data \in {NilMap, StrMap, ChanMap},
          outcome \in {"nil", ErrTransport} :
        LET in == [memoryID |-> memoryID, baseInfo |-> baseInfo, data |-> data]
        IN IF memoryID = ""
           THEN /\ ret' = OpReturned("Update", in, "memoryID cannot be empty", <<>>, <<>>)
                /\ UNCHANGED busLog
           ELSE IF MarshalMapFails(data) \/ MarshalMapFails(baseInfo.Metadata)
           THEN /\ ret' = OpReturned("Update", in, "failed to marshal Update request",
                                     <<>>, <<>>)
                /\ UNCHANGED busLog
           ELSE IF nc # "nil"
           THEN /\ busLog' = busLog \o
                       Publish(TopicOrPlaceholder(svcCfg.TopicMemoryUpdate,
                                                  "mem0.memory.update"),
                               [f \in {"user_id", "metadata", "memory_id", "data"} |->
                                  IF f = "data" THEN MarshalMap(data)
                                  ELSE MarshalGetRequestData(memoryID, baseInfo)[f]],
                               outcome)
                /\ ret' = OpReturned("Update", in,
                                     IF outcome # "nil" THEN ErrPublish ELSE "nil",
                                     <<>>, <<>>)
           ELSE /\ ret' = OpReturned("Update", in,
                                     "not fully implemented (NATS client is nil)",
                                     <<>>, <<>>)
                /\ UNCHANGED busLog
    /\ UNCHANGED <<storeVars, uuidCount, nc, addCalls, workerVars, reqLog, history,
                   svcCfg, confRet>>

\* Delete: the same with the memory_id and the caller's fields.
Delete ==
    /\ Len(busLog) + Len(reqLog) < MaxServiceMessages
    /\ \E memoryID \in MemoryIDs,
          baseInfo \in BaseInfos,
          outcome \in {"nil", ErrTransport} :
        LET in == [memoryID |-> memoryID, baseInfo |-> baseInfo]
        IN IF memoryID = ""
           THEN /\ ret' = OpReturned("Delete", in, "memoryID cannot be empty", <<>>, <<>>)
                /\ UNCHANGED busLog
           ELSE IF MarshalMapFails(baseInfo.Metadata)
           THEN /\ ret' = OpReturned("Delete", in, "failed to marshal Delete request",
                                     <<>>, <<>>)
                /\ UNCHANGED busLog
           ELSE IF nc # "nil"
           THEN /\ busLog' = busLog \o
                       Publish(TopicOrPlaceholder(svcCfg.TopicMemoryDelete,
                                                  "mem0.memory.delete"),
                               MarshalGetRequestData(memoryID, baseInfo), outcome)
                /\ ret' = OpReturned("Delete", in,
                                     IF outcome # "nil" THEN ErrPublish ELSE "nil",
                                     <<>>, <<>>)
           ELSE /\ ret' = OpReturned("Delete", in,
                                     "not fully implemented (NATS client is nil)",
                                     <<>>, <<>>)
                /\ UNCHANGED busLog
    /\ UNCHANGED <<storeVars, uuidCount, nc, addCalls, workerVars, reqLog, history,
                   svcCfg, confRet>>

\* The service's GetHistory: one call of the HistoryStore's GetHistory with the
\* memory_id, whose events, any sequence the store may hold for it, or whose error
\* it returns.
ServiceGetHistory ==
    /\ Len(busLog) + Len(reqLog) < MaxServiceMessages
    /\ \E memoryID \in MemoryIDs,
          baseInfo \in BaseInfos,
          stored \in {<<>>,
                      <<[TypicalEvent EXCEPT !.EventID = UUIDs[1]],
                        [TypicalEvent EXCEPT !.EventID = UUIDs[2]]>>,
                      <<[TypicalEvent EXCEPT !.EventID = UUIDs[2]],
                        [TypicalEvent EXCEPT !.EventID = UUIDs[1]]>>},
          outcome \in {"nil", ErrQuery} :
        LET in == [memoryID |-> memoryID, baseInfo |-> baseInfo]
            events == IF outcome = "nil"
                      THEN [i \in DOMAIN stored |-> [stored[i] EXCEPT !.MemoryID = memoryID]]
                      ELSE <<>>
            call == [memoryID |-> memoryID, events |-> events, err |-> outcome]
        IN ret' = IF memoryID = ""
                  THEN OpReturned("GetHistory", in, "memoryID cannot be empty", <<>>, <<>>)
                  ELSE IF ~HistoryConfigured
                  THEN OpReturned("GetHistory", in, "history store is not initialized",
                                  <<>>, <<>>)
                  ELSE IF outcome # "nil"
                  THEN OpReturned("GetHistory", in, "failed to get history from store",
                                  <<>>, <<call>>)
                  ELSE OpReturned("GetHistory", in, "nil", events, <<call>>)
    /\ UNCHANGED <<storeVars, uuidCount, nc, busLog, addCalls, workerVars, reqLog, history,
                   svcCfg, confRet>>

\* The state after NewMemoryService, which stores what it is given without looking
\* at it: a bus client or nil, a history store or nil, and a Config, here the
\* example's or one without one of the four operation topics.
ServiceOpsInit ==
    /\ db = "open"
    /\ tableExists = TRUE
    /\ table = <<>>
    /\ muWriter = 0
    /\ muReaders = {}
    /\ pc = [p \in Procs |-> "idle"]
    /\ last = NoCall
    /\ logged = <<>>
    /\ clock = 1
    /\ uuidCount = 0
    /\ logCalls = 0
    /\ nc \in {"nil", "client"}
    /\ busLog = <<>>
    /\ ret = NoAdd
    /\ addCalls = 0
    /\ cfg = [EnableGraphStore |-> FALSE, EnableInfer |-> FALSE]
    /\ clients = [openai |-> "client", vs |-> "client", dg |-> "client"]
    /\ wstate = [w \in AllWorkers |-> "new"]
    /\ ctxDone = FALSE
    /\ subs = {}
    /\ delivered = 0
    /\ handled = [w \in Workers |-> 0]
    /\ hret = NoHandlerCall
    /\ vectors = <<>>
    /\ mutations = <<>>
    /\ reqLog = <<>>
    /\ history \in {"nil", "store"}
    /\ svcCfg \in {[ExampleConfig EXCEPT ![f] = IF empty THEN "" ELSE @] :
                     f \in {"TopicMemorySearch", "TopicMemoryGet", "TopicMemoryUpdate",
                            "TopicMemoryDelete"},
                     empty \in BOOLEAN}
    /\ confRet = NoConfCall

ServiceOpsNext ==
    \/ Search
    \/ Get
    \/ Update
    \/ Delete
    \/ ServiceGetHistory

\* The memory service taking Search, Get, Update, Delete and GetHistory calls until
\* the bus client has received MaxServiceMessages messages.
SpecServiceOps == ServiceOpsInit /\ [][ServiceOpsNext]_vars

\* ------------------------------------------ memory service operation claims

\* A Search call or a Get call returns in this step.
SearchOrGetReturns == ret'.op \in {"Search", "Get"} /\ <<ret, reqLog>>' # <<ret, reqLog>>

\* The call's arguments pass its first check: a Search request with a query and a
\* limit that is not negative, a Get with a memory_id.
PassesFirstCheck(call) ==
    IF call.op = "Search" THEN call.in.Query # "" /\ call.in.Limit >= 0
    ELSE call.in.memoryID # ""

\* The call's payload is one json.Marshal encodes.
Encodable(call) ==
    /\ IF call.op = "Search" THEN ~MarshalMapFails(call.in.Metadata)
       ELSE ~MarshalMapFails(call.in.baseInfo.Metadata)
    /\ call.op = "Update" => ~MarshalMapFails(call.in.data)

\* The step sends exactly one request, on the topic configured for the operation,
\* with the timeout of five seconds.
SendsOneRequest ==
    /\ Len(reqLog') = Len(reqLog) + 1
    /\ SubSeq(reqLog', 1, Len(reqLog)) = reqLog
    /\ reqLog'[Len(reqLog')].topic
         = (IF ret'.op = "Search" THEN svcCfg.TopicMemorySearch ELSE svcCfg.TopicMemoryGet)
    /\ reqLog'[Len(reqLog')].timeout = 5

UpdateOrDeleteReturns ==
    ret'.op \in {"Update", "Delete"} /\ <<ret, busLog>>' # <<ret, busLog>>

\* The step makes exactly one publish, on the given topic, of a payload carrying
\* the call's memory_id and user_id.
PublishesOnceOn(topic) ==
    /\ Len(busLog') = Len(busLog) + 1
    /\ SubSeq(busLog', 1, Len(busLog)) = busLog
    /\ LET m == busLog'[Len(busLog')]
       IN /\ m.topic = topic
          /\ m.data.memory_id = ret'.in.memoryID
          /\ m.data.user_id.value = ret'.in.baseInfo.UserID
          /\ ret'.err = "nil" <=> m.err = "nil"

C24_GetHistoryBypassesBus ==
    /\ [](ret.op = "GetHistory"
            => IF ret.in.memoryID = ""
               THEN ret.err # "nil" /\ ret.storeCalls = <<>>
               ELSE IF history = "nil"
               THEN ret.err # "nil" /\ ret.storeCalls = <<>>
               ELSE /\ Len(ret.storeCalls) = 1
                    /\ ret.storeCalls[1].memoryID = ret.in.memoryID
                    /\ IF ret.storeCalls[1].err = "nil"
                       THEN ret.err = "nil" /\ ret.results = ret.storeCalls[1].events
                       ELSE ret.err # "nil" /\ ret.results = <<>>)
    /\ [][(ret'.op = "GetHistory" /\ ret' # ret)
            => busLog' = busLog /\ reqLog' = reqLog]_vars

\* GetHistory has returned two events of m1 in the order the store gave them.
C24_Witness ==
    /\ ret.op = "GetHistory"
    /\ ret.err = "nil"
    /\ ret.in.memoryID = "m1"
    /\ Len(ret.results) = 2
    /\ ret.results[1].EventID = UUIDs[2]
    /\ ret.results[2].EventID = UUIDs[1]
    /\ \A i \in 1..2 : ret.results[i].MemoryID = "m1"

\* C25: a memory service built from a Config for which Validate returns an error
\* never publishes or requests on the bus.
C25_InvalidConfigNoBusActivity ==
    ConfigValidate(svcCfg) # NoError => busLog = <<>> /\ reqLog = <<>>

\* -------------------------------------------- history store claims, continued

\* The position in logged of the event with event_id id (0 when there is none).
LoggedAt(id) ==
    IF \E i \in 1..Len(logged) : logged[i].EventID = id
    THEN CHOOSE i \in 1..Len(logged) : logged[i].EventID = id
    ELSE 0

\* C31: the events of one memory_id that carry equal timestamps are returned by
\* GetHistory in the order in which they were logged.
C31_TiesInLoggedOrder ==
    [][\A p \in Procs :
          (Returns(p, "GetHistory:cs") /\ tableExists)
              => \A k, l \in 1..Len(last'.events) :
                    (k < l /\ last'.events[k].Timestamp = last'.events[l].Timestamp)
                        => LoggedAt(last'.events[k].EventID)
                               < LoggedAt(last'.events[l].EventID)]_vars

\* C32: every row of the history table has a non-empty event_type: no LogEvent,
\* called directly or by the history worker for a delivered message, stores an
\* event whose event_type is empty.
C32_StoredEventTypeNonEmpty == \A i \in 1..Len(table) : table[i].event_type # ""

\* The details map GetHistory is to return for an event logged with details d: an
\* empty, non-nil map when d is nil or empty, d itself otherwise.
DetailsReadBack(d) == IF d.entries = {} THEN EmptyMap ELSE d

\* C36: GetHistory returns no event whose details map is nil: an event logged with
\* no details or with nil details is read back with an empty non-nil map, and an
\* event logged with a non-empty details map is read back with an equal map.
C36_DetailsNeverNil ==
    [][\A p \in Procs :
          (Returns(p, "GetHistory:cs") /\ tableExists)
              => \A k \in 1..Len(last'.events) :
                    /\ ~last'.events[k].Details.isNil
                    /\ LoggedAt(last'.events[k].EventID) # 0
                    /\ last'.events[k].Details
                           = DetailsReadBack(logged[LoggedAt(last'.events[k].EventID)].Details)]_vars

\* ------------------------------------------- memory service claims, continued

\* C40: Add reports success only for a request handed to the bus: whenever Add
\* returns a non-empty identifier and no error, it has published the request on the
\* add-received topic and the bus has accepted the publish, whether or not the
\* service was built with a bus client.
C40_SuccessOnlyAfterAcceptedPublish ==
    [][(AddReturns /\ ret'.id # "" /\ ret'.err = "nil")
          => \E i \in DOMAIN PublishedInStep :
                /\ PublishedInStep[i].topic = Cfg.TopicMemoryAddReceived
                /\ PublishedInStep[i].err = "nil"
                /\ PublishedInStep[i].data = MarshalRequest(ret'.req)]_vars

\* ------------------------------------------------- pipeline claims, continued

\* The extraction calls the handler that returned last has made.
ExtractionCalls == {c \in hret.calls : c[1] \in {"ExtractFacts", "ExtractGraphData"}}

\* C33: the processing stage calls fact extraction, and the graph stage calls
\* entity and relation extraction, only when inference is enabled and an extraction
\* client is configured; with inference disabled or without a client a handler
\* makes no extraction call.
C33_ExtractionGated ==
    (hret.worker \in {"processing", "dgraph"} /\ ExtractionCalls # {})
        => (cfg.EnableInfer /\ clients.openai # "nil")

\* ---------------------------------------------------------------- redelivery

\* The messages a bus delivers to the stage handlers: an AddMemoryRequest, a
\* ProcessedMemoryData, EmbeddingData whose metadata has keys of its own or the
\* keys "user_id" or "text", and GraphStoreStorageData with and without entities
\* and relationships, each encoded as its publisher encodes it.
DeliveredMessages ==
    LET metadata == {NilMap, StrMap,
                     [isNil |-> FALSE, entries |-> {<<"user_id", "string", "u2">>}],
                     [isNil |-> FALSE, entries |-> {<<"text", "string", "other">>}]}
        entities == {<<>>, <<[ID |-> "e2", Type |-> "place", Name |-> "rome"]>>}
        relationships ==
            {<<>>, <<[SourceID |-> "e2", TargetID |-> "e2", RelationshipType |-> "near"]>>}
    IN {Publish(Cfg.TopicMemoryAddReceived, MarshalRequest(TypicalRequest), "nil")}
       \cup {Publish(Cfg.TopicMemoryEmbed,
                     MarshalProcessedMemoryData(
                         [UserID |-> "u1", Metadata |-> NilMap,
                          OriginalMessages |-> TypicalRequest.Messages,
                          ProcessedText |-> "hello", MemoryID |-> "m1",
                          ExtractedFacts |-> <<>>]), "nil")}
       \cup {Publish(Cfg.TopicMemoryVectorStoreAdd,
                     MarshalEmbeddingData(
                         [UserID |-> u, Metadata |-> m, MemoryID |-> "m1",
                          TextToEmbed |-> "hello", Embedding |-> OpenAIEmbedding,
                          ProcessedText |-> "hello"]), "nil") :
                 u \in UserIDs, m \in metadata}
       \cup {Publish(Cfg.TopicMemoryGraphStoreAdd,
                     MarshalGraphStoreStorageData(
                         [UserID |-> "u1", Metadata |-> NilMap, MemoryID |-> "m1",
                          TextForGraph |-> "hello", Entities |-> e,
                          Relationships |-> r]), "nil") :
                 e \in entities, r \in relationships}

\* The state after the four stage workers have been built on one bus client that
\* holds one message to deliver.
DeliveryInit ==
    /\ db = "open"
    /\ tableExists = TRUE
    /\ table = <<>>
    /\ muWriter = 0
    /\ muReaders = {}
    /\ pc = [p \in Procs |-> "idle"]
    /\ last = NoCall
    /\ logged = <<>>
    /\ clock = 1
    /\ uuidCount = 0
    /\ logCalls = 0
    /\ nc = "client"
    /\ busLog \in DeliveredMessages
    /\ ret = NoAdd
    /\ addCalls = 0
    /\ cfg \in [EnableGraphStore : BOOLEAN, EnableInfer : BOOLEAN]
    /\ clients \in [openai : {"nil", "client"}, vs : {"client"}, dg : {"client"}]
    /\ wstate = [w \in AllWorkers |-> "new"]
    /\ ctxDone = FALSE
    /\ subs = {}
    /\ delivered = 0
    /\ handled = [w \in Workers |-> 0]
    /\ hret = NoHandlerCall
    /\ vectors = <<>>
    /\ mutations = <<>>
    /\ OpsInit

\* The bus delivers its message to the handler of worker w, for the first time or
\* once more: the handler is called with the same payload.
DeliverTo(w) ==
    /\ handled[w] < MaxDeliveries
    /\ 1 \in Inputs(w)
    /\ Handle(w, 1)
    /\ UNCHANGED delivered

DeliveryNext ==
    \/ DeliverTo("processing")
    \/ DeliverTo("embedding")
    \/ DeliverTo("qdrant")
    \/ DeliverTo("dgraph")

\* The stage handlers under a bus that delivers a message up to MaxDeliveries times.
SpecDelivery == DeliveryInit /\ [][DeliveryNext]_vars

\* ----------------------------------------------------------- redelivery claims

\* The GraphStoreStorageData the graph handler that returns in this step was
\* called with.
GraphDataHandled == UnmarshalGraphStoreStorageData(busLog[hret'.msg].data)

\* C34: when the graph-store message already carries entities or relationships,
\* the graph handler makes no extraction call for it and stores exactly the
\* entities and relationships of the message.
C34_SuppliedGraphDataKept ==
    [][(HandlerReturns("dgraph")
           /\ (GraphDataHandled.Entities # <<>> \/ GraphDataHandled.Relationships # <<>>))
          => /\ \A c \in hret'.calls : c[1] # "ExtractGraphData"
             /\ hret'.err = "nil"
                   => mutations' = Append(mutations,
                                          [memoryId |-> GraphDataHandled.MemoryID,
                                           entities |-> GraphDataHandled.Entities,
                                           relationships |-> GraphDataHandled.Relationships])]_vars

\* The event_ids of the MemoryEvents in the bus log before this step.
EventIDsBefore ==
    {busLog[k].data.event_id :
        k \in {i \in DOMAIN busLog : busLog[i].topic = Cfg.TopicMemoryHistoryLog}}

\* C35: deliveries are not deduplicated.  Every delivery of a vector-store message
\* whose handler returns success, the first as well as a repeated one, inserts one
\* more vector under the message's memory id and publishes one more
\* VECTOR_STORE_ADD event with an event_id no earlier event has; every delivery of
\* an add request whose handler returns success publishes one more
\* ProcessedMemoryData with a memory id no earlier one has.
C35_DeliveriesNotDeduplicated ==
    [][/\ (HandlerReturns("qdrant") /\ hret'.err = "nil")
            => /\ Len(vectors') = Len(vectors) + 1
               /\ SubSeq(vectors', 1, Len(vectors)) = vectors
               /\ vectors'[Len(vectors')].ID = busLog[hret'.msg].data.memory_id
               /\ Cardinality(EventsInStep) = 1
               /\ \A i \in EventsInStep :
                     /\ PublishedInStep[i].data.event_type = "VECTOR_STORE_ADD"
                     /\ PublishedInStep[i].data.event_id \notin EventIDsBefore
       /\ (HandlerReturns("processing") /\ hret'.err = "nil")
            => /\ Cardinality(PublishedOn(Cfg.TopicMemoryEmbed)) = 1
               /\ \A i \in PublishedOn(Cfg.TopicMemoryEmbed) :
                     /\ PublishedInStep[i].data.memory_id # ""
                     /\ PublishedInStep[i].data.memory_id \notin MintedByProcessing]_vars

\* C35's case: a vector-store message has been delivered twice, and there are two
\* vectors with its memory id and two VECTOR_STORE_ADD events with two event_ids.
C35_Witness ==
    /\ handled["qdrant"] = 2
    /\ Len(vectors) = 2
    /\ vectors[1].ID = vectors[2].ID
    /\ vectors[1].ID = busLog[1].data.memory_id
    /\ Cardinality(EventsOfType(busLog, "VECTOR_STORE_ADD")) = 2
    /\ Cardinality({busLog[k].data.event_id :
                      k \in EventsOfType(busLog, "VECTOR_STORE_ADD")}) = 2

\* -------------------------------------------- pipeline claims, identity chain

\* The messages of the bus log published on topic t.
MessagesOn(t) == {i \in DOMAIN busLog : busLog[i].topic = t}

\* The message at index k of the bus log carries the memory id and the user_id of
\* a ProcessedMemoryData that the processing stage published, and that user_id is
\* the one of a request that Add published.
DerivedFromProcessed(k, memoryID) ==
    \E p \in MessagesOn(Cfg.TopicMemoryEmbed) :
        /\ busLog[p].data.memory_id = memoryID
        /\ busLog[p].data.user_id = busLog[k].data.user_id
        /\ \E r \in MessagesOn(Cfg.TopicMemoryAddReceived) :
              busLog[r].data.user_id = busLog[p].data.user_id

\* C37: the memory id the processing stage mints is carried unchanged along the
\* chain.  Every EmbeddingData, every graph-store message and every history event
\* carries the memory id of a published ProcessedMemoryData together with its
\* user_id (which stands for the agent, run and actor ids too), which is the
\* request's; every vector ID and every graph mutation's memory id is the memory id
\* of a published ProcessedMemoryData.
C37_MemoryIDPropagated ==
    /\ \A k \in MessagesOn(Cfg.TopicMemoryVectorStoreAdd)
                \cup MessagesOn(Cfg.TopicMemoryGraphStoreAdd) :
          DerivedFromProcessed(k, busLog[k].data.memory_id)
    /\ \A k \in MessagesOn(Cfg.TopicMemoryHistoryLog) :
          /\ busLog[k].data.memory_id.present
          /\ DerivedFromProcessed(k, busLog[k].data.memory_id.value)
    /\ \A v \in DOMAIN vectors : vectors[v].ID \in MintedByProcessing
    /\ \A g \in DOMAIN mutations : mutations[g].memoryId \in MintedByProcessing

\* C37's case: a request of user u1 has gone through every stage: the vector and
\* the graph mutation are stored and the three events published, all under the
\* one memory id the processing stage minted.
C37_Witness ==
    /\ Len(vectors) = 1
    /\ Len(mutations) = 1
    /\ MintedByProcessing = {vectors[1].ID}
    /\ mutations[1].memoryId = vectors[1].ID
    /\ \A t \in {"MEMORY_PROCESSED", "VECTOR_STORE_ADD", "GRAPH_STORE_ADD"} :
          \E k \in EventsOfType(busLog, t) :
              /\ busLog[k].data.memory_id.value = vectors[1].ID
              /\ busLog[k].data.user_id = [present |-> TRUE, value |-> "u1"]

\* C38: a history event reflects a completed primary side effect of its stage.  A
\* MEMORY_PROCESSED event for memory id M is published only if the bus has accepted
\* the ProcessedMemoryData for M on the embed topic, a VECTOR_STORE_ADD event for M
\* only if a vector has been inserted under M, a GRAPH_STORE_ADD event for M only if
\* a graph mutation for M has been executed.
C38_EventAfterPrimaryEffect ==
    /\ \A k \in EventsOfType(busLog, "MEMORY_PROCESSED") :
          PublishedBefore(k, Cfg.TopicMemoryEmbed, EventMemoryID(k))
    /\ \A k \in EventsOfType(busLog, "VECTOR_STORE_ADD") :
          \E v \in DOMAIN vectors : vectors[v].ID = EventMemoryID(k)
    /\ \A k \in EventsOfType(busLog, "GRAPH_STORE_ADD") :
          \E g \in DOMAIN mutations : mutations[g].memoryId = EventMemoryID(k)

\* C39: the identity fields of a stored vector come from the message's identity
\* context only.  The payload the vector-store handler passes to the vector store
\* holds the message's user_id (which stands for agent_id, run_id and actor_id too)
\* under "user_id" and the message's processed text under "text", whatever the
\* message's metadata map contains.
C39_IdentityNotFromMetadata ==
    [][(HandlerReturns("qdrant") /\ hret'.err = "nil")
          => LET d == UnmarshalEmbeddingData(busLog[hret'.msg].data)
                 v == Len(vectors')
             IN /\ Len(vectors') = Len(vectors) + 1
                /\ { e[3] : e \in {x \in vectors'[v].Payload : x[1] = "user_id"} }
                       = {d.UserID}
                /\ { e[3] : e \in {x \in vectors'[v].Payload : x[1] = "text"} }
                       = {d.ProcessedText}]_vars

====
